---- MODULE Spec2Model ----
(***************************************************************************)
(* ecs-task-kite: the reconciler (proxyTasks, unproxyRemovedPorts,         *)
(* proxyNewPorts), the per-port Proxy (New, Serve, getBackend,             *)
(* createConnection, deleteConnection, UpdateBackendHosts, Close) and the  *)
(* task helpers (ContainerPorts, FilterIPPort), as a state machine; and    *)
(* _main, ecsclient.New, ECSClient.Tasks and container.ContainerPorts,     *)
(* each called on its own.                                                 *)
(*                                                                         *)
(* One reconciler thread, one poller goroutine, one Serve goroutine per    *)
(* Proxy and one relay goroutine per accepted connection interleave.  A    *)
(* step of the model is a piece of code that touches shared state at most  *)
(* once between two synchronisation points.                                *)
(***************************************************************************)
EXTENDS Integers, Sequences, FiniteSets, TLC

\* ------------------------------------------------------------------ bounds
MaxRounds == 2      \* task lists the poller gets
MaxConns  == 1      \* client connections accepted over the whole run
MaxPolls  == 3      \* polls of the poller when no client ever connects
MaxAcceptErrs == 1  \* Accept calls of a Proxy that fail on an open listener

\* ------------------------------------------------------------- input data
Ports == {80, 81}

\* the -public flag: default false
public == FALSE

Binding(c, h) == [cport |-> c, hport |-> h]

\* a network binding's ContainerPort that is nil
NilPort == 0

\* a task as the helpers see it: the named container (present or not), its
\* LastStatus, its network bindings (hport 0: HostPort nil), the host's ips
\* ("" : not known)
TaskA == [hasContainer |-> TRUE, running |-> TRUE,
          bindings |-> <<Binding(80, 8080)>>,
          privateIP |-> "10.0.0.1", publicIP |-> "54.0.0.1"]
TaskB == [hasContainer |-> TRUE, running |-> TRUE,
          bindings |-> <<Binding(80, 8080), Binding(80, 8080)>>,
          privateIP |-> "10.0.0.2", publicIP |-> ""]
TaskC == [hasContainer |-> TRUE, running |-> TRUE,
          bindings |-> <<Binding(81, 9090)>>,
          privateIP |-> "10.0.0.1", publicIP |-> "54.0.0.1"]
TaskUnbound == [hasContainer |-> TRUE, running |-> TRUE,
          bindings |-> <<Binding(80, 0)>>,
          privateIP |-> "10.0.0.3", publicIP |-> "54.0.0.3"]
TaskStopped == [hasContainer |-> TRUE, running |-> FALSE,
          bindings |-> <<Binding(80, 8080)>>,
          privateIP |-> "10.0.0.5", publicIP |-> "54.0.0.5"]
TaskOther == [hasContainer |-> FALSE, running |-> FALSE,
          bindings |-> <<>>,
          privateIP |-> "10.0.0.6", publicIP |-> "54.0.0.6"]

\* a container with several bindings: a port bound twice, a binding without
\* a container port, one without a host port, ports in another order than
\* TaskA and TaskC list them
TaskD == [hasContainer |-> TRUE, running |-> TRUE,
          bindings |-> <<Binding(81, 9090), Binding(NilPort, 7070),
                         Binding(80, 0), Binding(80, 8080), Binding(81, 9091)>>,
          privateIP |-> "10.0.0.4", publicIP |-> "54.0.0.4"]

\* the task lists client.Tasks may return in one discovery round
Snapshots ==
  { <<>>,
    <<TaskStopped, TaskOther>>,
    <<TaskA>>,
    <<TaskA, TaskB>>,
    <<TaskUnbound>>,
    <<TaskA, TaskC>> }

Range(s) == {s[i] : i \in 1..Len(s)}

\* ---------------------------------------------------------- task helpers
\* fmt.Sprintf("%s:%d", taskIP, hostPort): the address as the pair it prints
IPPort(ip, hostPort) == <<ip, hostPort>>

\* Container.ResolvePort: the host port of the first binding of containerPort
\* that has one, 0 if there is none
RECURSIVE ResolvePortFrom(_, _, _)
ResolvePortFrom(bindings, containerPort, i) ==
  IF i > Len(bindings) THEN 0
  ELSE IF bindings[i].cport = containerPort /\ bindings[i].hport # 0
       THEN bindings[i].hport
       ELSE ResolvePortFrom(bindings, containerPort, i + 1)

ResolvePort(task, containerPort) == ResolvePortFrom(task.bindings, containerPort, 1)

\* a faulty inner loop of ContainerPorts: the port of every binding is
\* appended, seen before or not
RECURSIVE AppendUnseen_Every(_, _, _)
AppendUnseen_Every(output, bindings, i) ==
  IF i > Len(bindings) THEN output
  ELSE IF bindings[i].cport = NilPort
       THEN AppendUnseen_Every(output, bindings, i + 1)
       ELSE AppendUnseen_Every(Append(output, bindings[i].cport), bindings, i + 1)

\* the inner loop of ContainerPorts: append the ports of one container's
\* bindings that were not seen yet (seenPorts holds exactly the ports of
\* output); a binding without a container port is passed over
RECURSIVE AppendUnseen(_, _, _)
AppendUnseen(output, bindings, i) ==
  IF i > Len(bindings) THEN output
  ELSE IF bindings[i].cport = NilPort \/ bindings[i].cport \in Range(output)
       THEN AppendUnseen(output, bindings, i + 1)
       ELSE AppendUnseen(Append(output, bindings[i].cport), bindings, i + 1)

\* a faulty ContainerPorts: the container's LastStatus is not looked at
RECURSIVE ContainerPortsFrom_AnyStatus(_, _, _)
ContainerPortsFrom_AnyStatus(output, taskList, i) ==
  IF i > Len(taskList) THEN output
  ELSE IF ~taskList[i].hasContainer
       THEN ContainerPortsFrom_AnyStatus(output, taskList, i + 1)
       ELSE ContainerPortsFrom_AnyStatus(AppendUnseen(output, taskList[i].bindings, 1),
                                         taskList, i + 1)

\* the outer loop of ContainerPorts: a task without the named container, or
\* whose container is not RUNNING, is passed over
RECURSIVE ContainerPortsFrom(_, _, _)
ContainerPortsFrom(output, taskList, i) ==
  IF i > Len(taskList) THEN output
  ELSE IF ~taskList[i].hasContainer \/ ~taskList[i].running
       THEN ContainerPortsFrom(output, taskList, i + 1)
       ELSE ContainerPortsFrom(AppendUnseen(output, taskList[i].bindings, 1),
                               taskList, i + 1)

ContainerPorts(taskList) == ContainerPortsFrom(<<>>, taskList, 1)

\* a faulty FilterIPPort: the private address is taken whatever publicIP says
RECURSIVE FilterIPPortFrom_PrivateOnly(_, _, _, _, _)
FilterIPPortFrom_PrivateOnly(output, taskList, containerPort, publicIP, i) ==
  IF i > Len(taskList) THEN output
  ELSE LET task == taskList[i]
           next == i + 1
       IN IF ~task.hasContainer \/ ~task.running
             \/ ResolvePort(task, containerPort) = 0 \/ task.privateIP = ""
          THEN FilterIPPortFrom_PrivateOnly(output, taskList, containerPort,
                                            publicIP, next)
          ELSE FilterIPPortFrom_PrivateOnly(
                 Append(output, IPPort(task.privateIP, ResolvePort(task, containerPort))),
                 taskList, containerPort, publicIP, next)

\* the loop of FilterIPPort
RECURSIVE FilterIPPortFrom(_, _, _, _, _)
FilterIPPortFrom(output, taskList, containerPort, publicIP, i) ==
  IF i > Len(taskList) THEN output
  ELSE LET task   == taskList[i]
           taskIP == IF publicIP THEN task.publicIP ELSE task.privateIP
           next   == i + 1
       IN IF ~task.hasContainer \/ ~task.running
             \/ ResolvePort(task, containerPort) = 0 \/ taskIP = ""
          THEN FilterIPPortFrom(output, taskList, containerPort, publicIP, next)
          ELSE FilterIPPortFrom(
                 Append(output, IPPort(taskIP, ResolvePort(task, containerPort))),
                 taskList, containerPort, publicIP, next)

FilterIPPort(taskList, containerPort, publicIP) ==
  FilterIPPortFrom(<<>>, taskList, containerPort, publicIP, 1)


\* ------------------------------------------------------------------ state
VARIABLES
  pollPc,     \* the poller goroutine: "poll" (client.Tasks, sleep) | "send"
  pollTasks,  \* the task list the poller is sending on the channel
  rounds,     \* task lists the poller has got so far
  rpc,        \* the reconciler: "recv" | "unproxy" | "closing" | "proxyNew" | "roundEnd"
  tasks,      \* the snapshot of the round in progress
  stale,      \* ports of the ProxySet still to be closed in this round
  idx,        \* proxyNewPorts: index into the container ports
  closing,    \* Close: the Proxy (index into proxy) being closed, 0 for none
  closeI,     \* Close: index of the range loop over activeConnections
  closeLen,   \* Close: length of the slice the range loop was started on
  rangeArr,   \* Close: the array the range loop reads when it is no longer
              \*   the Proxy's own (append moved the slice), else << >>
  proxies,    \* the ProxySet: port -> index into proxy, 0 for none
  proxy,      \* every Proxy object ever constructed
  conns,      \* the relay goroutines: one slot per connection being served
  accepted,   \* connections accepted so far
  crashed,    \* a goroutine panicked: the process is gone
  lastEmpty,  \* history: the ports the last reconciled snapshot listed
              \*   with no backend (cleared when the next round starts)
  pollHist,   \* history of the poller, kept where failed polls are counted
              \*   (ReconcilerSpec): "none": no call of client.Tasks has
              \*   failed; "failed": the last call failed; "recovered": the
              \*   last call returned a task list and an earlier one failed
  call        \* a function called on its own (CallSpec, TasksSpec): its
              \*   name, its arguments and what it returned; NoCall in the
              \*   program

vars == <<pollPc, pollTasks, rounds, rpc, tasks, stale, idx, closing, closeI, closeLen,
          rangeArr, proxies, proxy, conns, accepted, crashed, lastEmpty, pollHist,
          call>>

pollVars  == <<pollPc, pollTasks, pollHist>>
closeVars == <<closing, closeI, closeLen, rangeArr>>
recVars   == <<rpc, tasks, stale, idx, closeVars, lastEmpty>>

NoCall == [fn |-> "none"]

NoBackend == << >>

\* a slot of conns that holds no goroutine
FreeConn ==
  [pc |-> "free", proxy |-> 0, inbound |-> "closed", backend |-> NoBackend,
   bconn |-> "nil", afterEmpty |-> FALSE,
   client |-> "silent",     \* the client end: "silent", "sending", "closed"
   peer |-> "open",         \* the backend end: "open", "closed"
   d1 |-> FALSE,            \* io.Copy(conn, backendConn) has returned
   d2 |-> FALSE]            \* io.Copy(backendConn, conn) has returned

\* a slot is taken over by the next accepted connection once its goroutine
\* has returned
Returned(c) == conns[c].pc \in {"free", "rejected"}

\* in the array a range loop of Close still reads: a connection whose
\* goroutine has returned (closing it again does nothing)
Gone == -1

\* ---------------------------------------------------------------- Proxy
\* New: &Proxy{active: false, port: int(port)}
New(port) ==
  [port |-> port, active |-> FALSE, listener |-> "nil",
   currentBackends |-> << >>,
   installed |-> << >>,           \* history: the argument of the last
                                  \*   UpdateBackendHosts call
   arr |-> << >>, n |-> 0,        \* activeConnections: backing array, length
   connsLock |-> 0,               \* the connection holding connsLock, 0: free
   acceptErrs |-> 0,              \* history: Accept calls that failed on
                                  \*   the open listener
   dialFailed |-> {},             \* history: the addresses a dial to which
                                  \*   has failed
   serve |-> "new"]               \* the Serve goroutine

\* a faulty UpdateBackendHosts: the new addresses are added to the old list
UpdateBackendHosts_Merge(px, ipPortPairs) ==
  [px EXCEPT !.currentBackends = px.currentBackends \o ipPortPairs]

\* a faulty UpdateBackendHosts: the tracked connections are dropped as well
UpdateBackendHosts_DropConns(px, ipPortPairs) ==
  [px EXCEPT !.currentBackends = ipPortPairs, !.n = 0]

\* a faulty UpdateBackendHosts: the list is left as it is
UpdateBackendHosts_Ignore(px, ipPortPairs) == px

UpdateBackendHosts(px, ipPortPairs) ==
  [px EXCEPT !.currentBackends = ipPortPairs]

\* a faulty getBackend: an empty list yields the loopback address of the port
getBackend_Loopback(px) ==
  IF px.currentBackends = << >> THEN {IPPort("127.0.0.1", px.port)}
  ELSE Range(px.currentBackends)

\* a faulty getBackend: picks among every address ever seen for the port
getBackend_AnyAddress(px) ==
  UNION {Range(FilterIPPort(snapshot, px.port, public)) : snapshot \in Snapshots}

\* a faulty getBackend: an address a dial to which has failed is picked only
\* when the list holds no other
getBackend_AvoidFailed(px) ==
  IF Range(px.currentBackends) \ px.dialFailed = {} THEN Range(px.currentBackends)
  ELSE Range(px.currentBackends) \ px.dialFailed

\* getBackend: the addresses rand.Intn can pick; empty: ("", false)
getBackend(px) == Range(px.currentBackends)

\* the slice p.activeConnections
ActiveConnections(px) == SubSeq(px.arr, 1, px.n)

\* append(p.activeConnections, backendConn): in place while the array has
\* room, else into a new array of twice the size
GrowsOnAppend(px) == px.n = Len(px.arr)

AppendConnection(px, c) ==
  IF GrowsOnAppend(px)
  THEN LET newCap == IF px.n = 0 THEN 1 ELSE 2 * px.n
       IN [px EXCEPT !.arr = [i \in 1..newCap |->
                                IF i <= px.n THEN px.arr[i]
                                ELSE IF i = px.n + 1 THEN c ELSE 0],
                     !.n = px.n + 1]
  ELSE [px EXCEPT !.arr[px.n + 1] = c, !.n = px.n + 1]

\* a faulty deleteConnection: the slice shrinks by one, but the last entry is
\* not moved to the place of targetConn
deleteConnection_DropLast(px, targetConn) ==
  IF \E i \in 1..px.n : px.arr[i] = targetConn
  THEN [px EXCEPT !.arr[px.n] = 0, !.n = px.n - 1]
  ELSE px

\* a faulty deleteConnection: the slice is left as it is
deleteConnection_Never(px, targetConn) == px

\* deleteConnection: the first entry equal to targetConn is overwritten by
\* the last, the last slot is set to nil and the slice shrinks by one
deleteConnection(px, targetConn) ==
  LET hits == {i \in 1..px.n : px.arr[i] = targetConn}
  IN IF hits = {} THEN px
     ELSE LET i == CHOOSE j \in hits : \A k \in hits : j <= k
          IN [px EXCEPT !.arr = [[px.arr EXCEPT ![i] = px.arr[px.n]]
                                   EXCEPT ![px.n] = 0],
                        !.n = px.n - 1]

\* the socket net.Listen returned to the Serve of px is open: Serve holds it
\* in its local l, or has stored it in p.listener and Close has not closed it
SocketOpen(px) == px.serve = "bound" \/ px.listener = "open"

\* net.Listen fails when a listener of this process holds the port
PortFree(port) ==
  \A i \in 1..Len(proxy) : proxy[i].port = port => ~SocketOpen(proxy[i])

\* Close holds p.l from its Lock to its return
LHeldByClose(i) == closing = i

\* ------------------------------------------------------------ reconciler
\* a faulty unproxyRemovedPorts: nothing is stale when no container port is
\* left
StalePorts_KeepWhenNoPorts(containerPorts, prox) ==
  IF Len(containerPorts) = 0 THEN {}
  ELSE {port \in Ports : prox[port] # 0 /\ port \notin Range(containerPorts)}

\* unproxyRemovedPorts: the ports of the ProxySet no container listens on
StalePorts(containerPorts, prox) ==
  {port \in Ports : prox[port] # 0 /\ port \notin Range(containerPorts)}

\* the ports a snapshot lists without any backend address
EmptyPorts(taskList) ==
  {port \in Range(ContainerPorts(taskList)) :
     FilterIPPort(taskList, port, public) = << >>}

\* a faulty proxyNewPorts: an existing Proxy is given an empty list too
PortStep_UpdateEmpty(ipPortPairs, exists) ==
  IF exists THEN "update"
  ELSE IF Len(ipPortPairs) = 0 THEN "skip" ELSE "create"

\* a faulty proxyNewPorts: a missing Proxy is created for an empty list too
PortStep_CreateEmpty(ipPortPairs, exists) ==
  IF ~exists THEN "create"
  ELSE IF Len(ipPortPairs) = 0 THEN "skip" ELSE "update"

\* a faulty proxyNewPorts: an existing Proxy is left with its old list
PortStep_NoUpdate(ipPortPairs, exists) ==
  IF Len(ipPortPairs) = 0 \/ exists THEN "skip" ELSE "create"

\* a faulty proxyNewPorts: the ProxySet is not looked up
PortStep_AlwaysCreate(ipPortPairs, exists) ==
  IF Len(ipPortPairs) = 0 THEN "skip" ELSE "create"

\* proxyNewPorts, what one iteration does with a port
PortStep(ipPortPairs, exists) ==
  IF Len(ipPortPairs) = 0 THEN "skip"
  ELSE IF exists THEN "update" ELSE "create"

AfterUnproxy(taskList) ==
  IF Len(ContainerPorts(taskList)) = 0 THEN "roundEnd" ELSE "proxyNew"

\* the history of the poller after a call of client.Tasks that failed
AfterFailure(h) == "failed"

\* the history of the poller after a call that returned a task list
AfterSuccess(h) == IF h = "none" THEN "none" ELSE "recovered"

Init ==
  /\ pollPc = "poll"
  /\ pollTasks = << >>
  /\ rounds = 0
  /\ rpc = "recv"
  /\ tasks = << >>
  /\ stale = {}
  /\ idx = 0
  /\ closing = 0
  /\ closeI = 0
  /\ closeLen = 0
  /\ rangeArr = << >>
  /\ proxies = [port \in Ports |-> 0]
  /\ proxy = << >>
  /\ conns = [c \in 1..MaxConns |-> FreeConn]
  /\ accepted = 0
  /\ crashed = FALSE
  /\ lastEmpty = {}
  /\ pollHist = "none"
  /\ call = NoCall

\* collectTaskUpdates: client.Tasks returned an error; it is logged, nothing
\* is sent, and the goroutine sleeps and polls again
PollError ==
  /\ ~crashed
  /\ pollPc = "poll"
  /\ rounds < MaxRounds
  /\ UNCHANGED vars

\* collectTaskUpdates: client.Tasks returned a task list; the goroutine
\* blocks sending it on the unbuffered channel
PollOk(snapshot) ==
  /\ ~crashed
  /\ pollPc = "poll"
  /\ rounds < MaxRounds
  /\ pollPc' = "send"
  /\ pollTasks' = snapshot
  /\ UNCHANGED pollHist
  /\ rounds' = rounds + 1
  /\ UNCHANGED <<call, recVars, proxies, proxy, conns, accepted, crashed>>

\* a faulty proxyTasks: the next task list is taken off the channel while the
\* round of the one before is still running
Recv_MidRound ==
  /\ ~crashed
  /\ pollPc = "send"
  /\ closing = 0
  /\ pollPc' = "poll"
  /\ pollTasks' = << >>
  /\ UNCHANGED pollHist
  /\ tasks' = pollTasks
  /\ lastEmpty' = {}
  /\ idx' = 1
  /\ IF Len(pollTasks) = 0
     THEN /\ rpc' = "roundEnd"
          /\ stale' = {}
     ELSE /\ stale' = StalePorts(ContainerPorts(pollTasks), proxies)
          /\ rpc' = IF stale' = {} THEN AfterUnproxy(pollTasks) ELSE "unproxy"
  /\ UNCHANGED <<call, rounds, closeVars, proxies, proxy, conns, accepted, crashed>>

\* proxyTasks: the range loop takes the task list off the channel (the poller
\* goes on to sleep and poll again).  An empty list is ignored, else the
\* stale ports are collected
Recv ==
  /\ ~crashed
  /\ rpc = "recv"
  /\ pollPc = "send"
  /\ pollPc' = "poll"
  /\ pollTasks' = << >>
  /\ UNCHANGED pollHist
  /\ tasks' = pollTasks
  /\ lastEmpty' = {}
  /\ idx' = 1
  /\ IF Len(pollTasks) = 0
     THEN /\ rpc' = "roundEnd"
          /\ stale' = {}
     ELSE /\ stale' = StalePorts(ContainerPorts(pollTasks), proxies)
          /\ rpc' = IF stale' = {} THEN AfterUnproxy(pollTasks) ELSE "unproxy"
  /\ UNCHANGED <<call, rounds, closeVars, proxies, proxy, conns, accepted, crashed>>


\* Close, up to the range statement: p.listener.Addr() on a Proxy whose Serve
\* has not bound a listener is a nil dereference; else p.l is taken, active
\* is cleared and the range loop is set up on the current slice
\* a faulty Close: the flag is left as it is
CloseStart_KeepActive(i) ==
  IF proxy[i].listener = "nil"
  THEN /\ crashed' = TRUE
       /\ UNCHANGED <<closeVars, proxy>>
  ELSE /\ closing' = i
       /\ closeI' = 1
       /\ closeLen' = proxy[i].n
       /\ rangeArr' = << >>
       /\ UNCHANGED <<proxy, crashed>>

CloseStart(i) ==
  IF proxy[i].listener = "nil"
  THEN /\ crashed' = TRUE
       /\ UNCHANGED <<closeVars, proxy>>
  ELSE /\ closing' = i
       /\ closeI' = 1
       /\ closeLen' = proxy[i].n
       /\ rangeArr' = << >>
       /\ proxy' = [proxy EXCEPT ![i].active = FALSE]
       /\ UNCHANGED crashed

\* unproxyRemovedPorts: staleProxy.Close() is called for a stale port
CloseBegin(port) ==
  /\ ~crashed
  /\ rpc = "unproxy"
  /\ port \in stale
  /\ CloseStart(proxies[port])
  /\ rpc' = IF crashed' THEN rpc ELSE "closing"
  /\ UNCHANGED <<call, pollVars, rounds, tasks, stale, idx, proxies, conns, accepted, lastEmpty>>

\* the element the range loop of Close reads at index i
RangeElem(i) ==
  IF rangeArr # << >> THEN rangeArr[i] ELSE proxy[closing].arr[i]

\* Close, one iteration of the range loop: conn.Close()
CloseConn ==
  /\ ~crashed
  /\ closing # 0
  /\ closeI <= closeLen
  /\ LET c == RangeElem(closeI)
     IN IF c = 0
        THEN /\ crashed' = TRUE
             /\ UNCHANGED <<closeI, conns>>
        ELSE /\ conns' = IF c = Gone THEN conns
                         ELSE [conns EXCEPT ![c].bconn = "closed"]
             /\ closeI' = closeI + 1
             /\ UNCHANGED crashed
  /\ UNCHANGED <<call, pollVars, rounds, rpc, tasks, stale, idx, closing, closeLen,
                 rangeArr, proxies, proxy, accepted, lastEmpty>>

\* Close, after the loop: p.listener.Close(), and p.l is released
CloseFinish ==
  /\ closeI > closeLen
  /\ proxy' = [proxy EXCEPT ![closing].listener = "closed"]
  /\ closing' = 0
  /\ closeI' = 0
  /\ closeLen' = 0
  /\ rangeArr' = << >>

\* Close returns to unproxyRemovedPorts: delete(proxies, port)
CloseListener ==
  /\ ~crashed
  /\ rpc = "closing"
  /\ CloseFinish
  /\ LET port == proxy[closing].port
     IN /\ proxies' = [proxies EXCEPT ![port] = 0]
        /\ stale' = stale \ {port}
        /\ rpc' = IF stale' = {} THEN AfterUnproxy(tasks) ELSE "unproxy"
  /\ UNCHANGED <<call, pollVars, rounds, tasks, idx, conns, accepted, crashed, lastEmpty>>

\* proxyNewPorts, one iteration: a port without backends is skipped, an
\* existing Proxy gets the new list, a missing one is constructed, given the
\* list, started (go Serve) and put into the ProxySet
ProxyNewPort ==
  /\ ~crashed
  /\ rpc = "proxyNew"
  /\ LET containerPorts == ContainerPorts(tasks)
         port           == containerPorts[idx]
         ipPortPairs    == FilterIPPort(tasks, port, public)
         step           == PortStep(ipPortPairs, proxies[port] # 0)
     IN /\ CASE step = "skip" ->
                  UNCHANGED <<proxies, proxy>>
             [] step = "update" ->
                  /\ proxy' = [proxy EXCEPT ![proxies[port]] =
                       [UpdateBackendHosts(@, ipPortPairs)
                          EXCEPT !.installed = ipPortPairs]]
                  /\ UNCHANGED proxies
             [] step = "create" ->
                  /\ proxy' = Append(proxy,
                       [UpdateBackendHosts(New(port), ipPortPairs)
                          EXCEPT !.installed = ipPortPairs, !.serve = "start"])
                  /\ proxies' = [proxies EXCEPT ![port] = Len(proxy) + 1]
        /\ idx' = idx + 1
        /\ rpc' = IF idx = Len(containerPorts) THEN "roundEnd" ELSE "proxyNew"
  /\ UNCHANGED <<call, pollVars, rounds, tasks, stale, closeVars, conns, accepted, crashed,
                 lastEmpty>>

\* proxyTasks: the body of the range loop is done; the loop waits for the
\* next task list
RoundEnd ==
  /\ ~crashed
  /\ rpc = "roundEnd"
  /\ rpc' = "recv"
  /\ lastEmpty' = EmptyPorts(tasks)
  /\ tasks' = << >>
  /\ idx' = 0
  /\ UNCHANGED <<call, pollVars, rounds, stale, closeVars, proxies, proxy, conns, accepted,
                 crashed>>


\* ---------------------------------------------------------------- Serve
\* Serve, net.Listen succeeds: the listening socket is open, in the local l
ServeListen(i) ==
  /\ ~crashed
  /\ proxy[i].serve = "start"
  /\ PortFree(proxy[i].port)
  /\ proxy' = [proxy EXCEPT ![i].serve = "bound"]
  /\ UNCHANGED <<call, pollVars, rounds, recVars, proxies, conns, accepted, crashed>>

\* Serve, p.active = true; p.listener = l, and the loop is entered
ServeActivate(i) ==
  /\ ~crashed
  /\ proxy[i].serve = "bound"
  /\ proxy' = [proxy EXCEPT ![i] =
       [@ EXCEPT !.active = TRUE, !.listener = "open", !.serve = "accept"]]
  /\ UNCHANGED <<call, pollVars, rounds, recVars, proxies, conns, accepted, crashed>>

\* Serve, up to the loop, net.Listen fails (the port is held by a listener of
\* this process or by another process): Serve returns the error, which the
\* goroutine of proxyNewPorts logs
ServeListenError(i) ==
  /\ ~crashed
  /\ proxy[i].serve = "start"
  /\ proxy' = [proxy EXCEPT ![i].serve = "failed"]
  /\ UNCHANGED <<call, pollVars, rounds, recVars, proxies, conns, accepted, crashed>>

\* Serve, the loop condition after an iteration: for p.active
LoopCheck(px) == IF px.active THEN "accept" ELSE "returned"

\* a faulty Serve: an Accept error ends the loop
AcceptError_EndsLoop(i) ==
  /\ ~crashed
  /\ proxy[i].serve = "accept"
  /\ proxy[i].listener = "open"
  /\ proxy[i].acceptErrs < MaxAcceptErrs
  /\ proxy' = [proxy EXCEPT ![i] =
       [@ EXCEPT !.acceptErrs = @ + 1, !.serve = "returned"]]
  /\ UNCHANGED <<call, pollVars, rounds, recVars, proxies, conns, accepted, crashed>>

\* Serve, p.listener.Accept() fails while the listener is open: the error is
\* logged and the loop continues with its condition
AcceptError(i) ==
  /\ ~crashed
  /\ proxy[i].serve = "accept"
  /\ proxy[i].listener = "open"
  /\ proxy[i].acceptErrs < MaxAcceptErrs
  /\ proxy' = [proxy EXCEPT ![i] =
       [@ EXCEPT !.acceptErrs = @ + 1, !.serve = LoopCheck(proxy[i])]]
  /\ UNCHANGED <<call, pollVars, rounds, recVars, proxies, conns, accepted, crashed>>

\* a faulty Serve: Accept returns connections on a closed listener too
Accept_OnClosedListener(i) ==
  /\ ~crashed
  /\ proxy[i].serve = "accept"
  /\ accepted < MaxConns
  /\ accepted' = accepted + 1
  /\ \E c \in 1..MaxConns :
       /\ Returned(c)
       /\ \A d \in 1..(c - 1) : ~Returned(d)
       /\ conns' = [conns EXCEPT ![c] =
            [FreeConn EXCEPT !.pc = "getBackend", !.proxy = i, !.inbound = "open"]]
  /\ proxy' = [proxy EXCEPT ![i].serve = LoopCheck(proxy[i])]
  /\ UNCHANGED <<call, pollVars, rounds, recVars, proxies, crashed>>

\* Serve, p.listener.Accept() returns a connection: go func(conn)
Accept(i) ==
  /\ ~crashed
  /\ proxy[i].serve = "accept"
  /\ proxy[i].listener = "open"
  /\ accepted < MaxConns
  /\ accepted' = accepted + 1
  /\ \E c \in 1..MaxConns :
       /\ Returned(c)
       /\ \A d \in 1..(c - 1) : ~Returned(d)
       /\ conns' = [conns EXCEPT ![c] =
            [pc |-> "getBackend", proxy |-> i, inbound |-> "open",
             backend |-> NoBackend, bconn |-> "nil",
             afterEmpty |-> (rpc = "recv" /\ proxy[i].port \in lastEmpty),
             client |-> "silent", peer |-> "open", d1 |-> FALSE, d2 |-> FALSE]]
  /\ proxy' = [proxy EXCEPT ![i].serve = LoopCheck(proxy[i])]
  /\ UNCHANGED <<call, pollVars, rounds, recVars, proxies, crashed>>

\* Serve, Accept fails on the closed listener: the error is logged, the loop
\* condition p.active is false and Serve returns nil
ServeReturn(i) ==
  /\ ~crashed
  /\ proxy[i].serve = "accept"
  /\ proxy[i].listener = "closed"
  /\ ~proxy[i].active
  /\ proxy' = [proxy EXCEPT ![i].serve = "returned"]
  /\ UNCHANGED <<call, pollVars, rounds, recVars, proxies, conns, accepted, crashed>>

\* ----------------------------------------------------- relay goroutine
\* getBackend under p.l.RLock: no backend: the goroutine returns and its
\* deferred conn.Close() runs; else one address of the list
GetBackend(c) ==
  /\ ~crashed
  /\ conns[c].pc = "getBackend"
  /\ ~LHeldByClose(conns[c].proxy)
  /\ LET choices == getBackend(proxy[conns[c].proxy])
     IN IF choices = {}
        THEN conns' = [conns EXCEPT ![c].pc = "rejected", ![c].inbound = "closed"]
        ELSE \E chosenBackend \in choices :
               conns' = [conns EXCEPT ![c].pc = "createConnection",
                                      ![c].backend = chosenBackend]
  /\ UNCHANGED <<call, pollVars, rounds, recVars, proxies, proxy, accepted, crashed>>

\* createConnection, up to the dial: connsLock is taken; an inactive Proxy
\* returns an error, else net.DialTimeout starts with the lock held
CreateConnection(c) ==
  /\ ~crashed
  /\ conns[c].pc = "createConnection"
  /\ LET i == conns[c].proxy
     IN /\ proxy[i].connsLock = 0
        /\ IF ~proxy[i].active
           THEN /\ conns' = [conns EXCEPT ![c].pc = "cleanup"]
                /\ UNCHANGED proxy
           ELSE /\ conns' = [conns EXCEPT ![c].pc = "dialing"]
                /\ proxy' = [proxy EXCEPT ![i].connsLock = c]
  /\ UNCHANGED <<call, pollVars, rounds, recVars, proxies, accepted, crashed>>

\* createConnection, the dial succeeded: the connection is appended to
\* activeConnections and connsLock is released.  A range loop of Close that
\* is running on the old array keeps reading the old array.
DialOk(c) ==
  /\ ~crashed
  /\ conns[c].pc = "dialing"
  /\ LET i == conns[c].proxy
     IN /\ proxy' = [proxy EXCEPT ![i] =
                       [AppendConnection(@, c) EXCEPT !.connsLock = 0]]
        /\ rangeArr' = IF closing = i /\ rangeArr = << >> /\ GrowsOnAppend(proxy[i])
                       THEN proxy[i].arr ELSE rangeArr
  /\ conns' = [conns EXCEPT ![c].pc = "relay", ![c].bconn = "open"]
  /\ UNCHANGED <<call, pollVars, rounds, rpc, tasks, stale, idx, closing, closeI,
                 closeLen, proxies, accepted, crashed, lastEmpty>>

\* a faulty relay goroutine: after a failed dial another backend is chosen
DialFail_Retry(c) ==
  /\ ~crashed
  /\ conns[c].pc = "dialing"
  /\ proxy' = [proxy EXCEPT ![conns[c].proxy] =
       [@ EXCEPT !.connsLock = 0, !.dialFailed = @ \cup {conns[c].backend}]]
  /\ conns' = [conns EXCEPT ![c].pc = "getBackend", ![c].bconn = "failed"]
  /\ UNCHANGED <<call, pollVars, rounds, recVars, proxies, accepted, crashed>>

\* createConnection, the dial failed or timed out: (nil, err)
DialFail(c) ==
  /\ ~crashed
  /\ conns[c].pc = "dialing"
  /\ proxy' = [proxy EXCEPT ![conns[c].proxy] =
       [@ EXCEPT !.connsLock = 0, !.dialFailed = @ \cup {conns[c].backend}]]
  /\ conns' = [conns EXCEPT ![c].pc = "cleanup", ![c].bconn = "failed"]
  /\ UNCHANGED <<call, pollVars, rounds, recVars, proxies, accepted, crashed>>

\* both io.Copy calls have ended (either end closed its side, or Close closed
\* backendConn under them): waitBothDone.Wait() returns and the deferred
\* backendConn.Close() runs
RelayDone(c) ==
  /\ ~crashed
  /\ conns[c].pc = "relay"
  /\ conns' = [conns EXCEPT ![c].pc = "cleanup", ![c].bconn = "closed"]
  /\ UNCHANGED <<call, pollVars, rounds, recVars, proxies, proxy, accepted, crashed>>

\* the connection createConnection returned to the relay goroutine: nil (0)
\* unless the dial succeeded
BackendConn(c) == IF conns[c].bconn \in {"nil", "failed"} THEN 0 ELSE c

\* the deferred p.deleteConnection(backendConn), under connsLock, and then
\* the deferred conn.Close(); the goroutine returns
Cleanup(c) ==
  /\ ~crashed
  /\ conns[c].pc = "cleanup"
  /\ LET i == conns[c].proxy
     IN /\ proxy[i].connsLock = 0
        /\ proxy' = [proxy EXCEPT ![i] = deleteConnection(@, BackendConn(c))]
  /\ conns' = [conns EXCEPT ![c] = FreeConn]
  /\ rangeArr' = [k \in DOMAIN rangeArr |->
                    IF rangeArr[k] = c THEN Gone ELSE rangeArr[k]]
  /\ UNCHANGED <<call, pollVars, rounds, rpc, tasks, stale, idx, closing, closeI,
                 closeLen, proxies, accepted, crashed, lastEmpty>>

\* ------------------------------------------------------------------ Next
Next ==
  \/ PollError
  \/ \E snapshot \in Snapshots : PollOk(snapshot)
  \/ Recv
  \/ \E port \in Ports : CloseBegin(port)
  \/ CloseConn
  \/ CloseListener
  \/ ProxyNewPort
  \/ RoundEnd
  \/ \E i \in 1..Len(proxy) : ServeListen(i)
  \/ \E i \in 1..Len(proxy) : ServeActivate(i)
  \/ \E i \in 1..Len(proxy) : ServeListenError(i)
  \/ \E i \in 1..Len(proxy) : Accept(i)
  \/ \E i \in 1..Len(proxy) : ServeReturn(i)
  \/ \E c \in 1..MaxConns : GetBackend(c)
  \/ \E c \in 1..MaxConns : CreateConnection(c)
  \/ \E c \in 1..MaxConns : DialOk(c)
  \/ \E c \in 1..MaxConns : DialFail(c)
  \/ \E c \in 1..MaxConns : RelayDone(c)
  \/ \E c \in 1..MaxConns : Cleanup(c)

Spec == Init /\ [][Next]_vars

\* --------------------------------------------- the reconciler on its own
\* The reconciler, the poller and the Serve goroutines while no client
\* connects: no relay goroutine runs, and the poller polls MaxPolls times.

\* collectTaskUpdates: client.Tasks returned a task list
PollOkQuiet(snapshot) ==
  /\ ~crashed
  /\ pollPc = "poll"
  /\ rounds < MaxPolls
  /\ pollPc' = "send"
  /\ pollTasks' = snapshot
  /\ pollHist' = AfterSuccess(pollHist)
  /\ rounds' = rounds + 1
  /\ UNCHANGED <<call, recVars, proxies, proxy, conns, accepted, crashed>>

\* a faulty collectTaskUpdates: the task list is sent with the error too
PollErrorQuiet_SendsAnyway ==
  /\ ~crashed
  /\ pollPc = "poll"
  /\ rounds < MaxPolls
  /\ pollPc' = "send"
  /\ pollTasks' = << >>
  /\ pollHist' = AfterFailure(pollHist)
  /\ rounds' = rounds + 1
  /\ UNCHANGED <<call, recVars, proxies, proxy, conns, accepted, crashed>>

\* collectTaskUpdates: client.Tasks returned an error; it is logged, nothing
\* is sent, and the goroutine sleeps and polls again
PollErrorQuiet ==
  /\ ~crashed
  /\ pollPc = "poll"
  /\ rounds < MaxPolls
  /\ pollHist' = AfterFailure(pollHist)
  /\ rounds' = rounds + 1
  /\ UNCHANGED <<call, pollPc, pollTasks, recVars, proxies, proxy, conns, accepted,
                 crashed>>

ReconcilerNext ==
  \/ PollErrorQuiet
  \/ \E snapshot \in Snapshots : PollOkQuiet(snapshot)
  \/ Recv
  \/ \E port \in Ports : CloseBegin(port)
  \/ CloseListener
  \/ ProxyNewPort
  \/ RoundEnd
  \/ \E i \in 1..Len(proxy) : ServeListen(i)
  \/ \E i \in 1..Len(proxy) : ServeActivate(i)
  \/ \E i \in 1..Len(proxy) : ServeListenError(i)
  \/ \E i \in 1..Len(proxy) : ServeReturn(i)

ReconcilerSpec == Init /\ [][ReconcilerNext]_vars

\* ------------------------------------------------- the package on its own
\* The exported methods of Proxy called in any order by one goroutine on one
\* Proxy: New, then UpdateBackendHosts with any list, go Serve, and Close.
BackendLists ==
  { << >>,
    <<IPPort("10.0.0.1", 8080)>>,
    <<IPPort("10.0.0.1", 8080), IPPort("10.0.0.2", 8080)>> }

\* the state after proxy.New(80)
ProxyInit ==
  /\ pollPc = "poll"
  /\ pollTasks = << >>
  /\ rounds = 0
  /\ rpc = "api"
  /\ tasks = << >>
  /\ stale = {}
  /\ idx = 0
  /\ closing = 0
  /\ closeI = 0
  /\ closeLen = 0
  /\ rangeArr = << >>
  /\ proxies = [port \in Ports |-> 0]
  /\ proxy = <<New(80)>>
  /\ conns = [c \in 1..MaxConns |-> FreeConn]
  /\ accepted = 0
  /\ crashed = FALSE
  /\ lastEmpty = {}
  /\ pollHist = "none"
  /\ call = NoCall

\* the caller runs p.UpdateBackendHosts(ipPortPairs)
CallUpdateBackendHosts(ipPortPairs) ==
  /\ ~crashed
  /\ rpc = "api"
  /\ proxy' = [proxy EXCEPT ![1] =
       [UpdateBackendHosts(@, ipPortPairs) EXCEPT !.installed = ipPortPairs]]
  /\ UNCHANGED <<call, pollVars, rounds, recVars, proxies, conns, accepted, crashed>>

\* the caller runs go p.Serve()
CallServe ==
  /\ ~crashed
  /\ rpc = "api"
  /\ proxy[1].serve = "new"
  /\ proxy' = [proxy EXCEPT ![1].serve = "start"]
  /\ UNCHANGED <<call, pollVars, rounds, recVars, proxies, conns, accepted, crashed>>

\* the caller runs p.Close()
CallClose ==
  /\ ~crashed
  /\ rpc = "api"
  /\ CloseStart(1)
  /\ rpc' = IF crashed' THEN rpc ELSE "apiClosing"
  /\ UNCHANGED <<call, pollVars, rounds, tasks, stale, idx, proxies, conns, accepted, lastEmpty>>

\* p.Close() returns to the caller
CallCloseReturn ==
  /\ ~crashed
  /\ rpc = "apiClosing"
  /\ CloseFinish
  /\ rpc' = "api"
  /\ UNCHANGED <<call, pollVars, rounds, tasks, stale, idx, proxies, conns, accepted,
                 crashed, lastEmpty>>

ProxyNext ==
  \/ \E i \in 1..Len(proxy) : AcceptError(i)
  \/ \E ipPortPairs \in BackendLists : CallUpdateBackendHosts(ipPortPairs)
  \/ CallServe
  \/ CallClose
  \/ CloseConn
  \/ CallCloseReturn
  \/ \E i \in 1..Len(proxy) : ServeListen(i)
  \/ \E i \in 1..Len(proxy) : ServeActivate(i)
  \/ \E i \in 1..Len(proxy) : ServeListenError(i)
  \/ \E i \in 1..Len(proxy) : Accept(i)
  \/ \E i \in 1..Len(proxy) : ServeReturn(i)
  \/ \E c \in 1..MaxConns : GetBackend(c)
  \/ \E c \in 1..MaxConns : CreateConnection(c)
  \/ \E c \in 1..MaxConns : DialOk(c)
  \/ \E c \in 1..MaxConns : DialFail(c)
  \/ \E c \in 1..MaxConns : RelayDone(c)
  \/ \E c \in 1..MaxConns : Cleanup(c)

ProxySpec == ProxyInit /\ [][ProxyNext]_vars


\* ------------------------------------------------ the relay, copy by copy
\* The Proxy on its own as in ProxySpec, with the two io.Copy goroutines of a
\* relay and the two ends of the connection as steps of their own.

\* the client writes to its connection
ClientSend(c) ==
  /\ ~crashed
  /\ conns[c].pc \in {"getBackend", "createConnection", "dialing", "relay"}
  /\ conns[c].client = "silent"
  /\ conns' = [conns EXCEPT ![c].client = "sending"]
  /\ UNCHANGED <<call, pollVars, rounds, recVars, proxies, proxy, accepted, crashed>>

\* the client closes its connection
ClientClose(c) ==
  /\ ~crashed
  /\ conns[c].pc \in {"getBackend", "createConnection", "dialing", "relay"}
  /\ conns[c].client # "closed"
  /\ conns' = [conns EXCEPT ![c].client = "closed"]
  /\ UNCHANGED <<call, pollVars, rounds, recVars, proxies, proxy, accepted, crashed>>

\* the backend closes its end of the backend connection
BackendPeerClose(c) ==
  /\ ~crashed
  /\ conns[c].pc = "relay"
  /\ conns[c].peer = "open"
  /\ conns' = [conns EXCEPT ![c].peer = "closed"]
  /\ UNCHANGED <<call, pollVars, rounds, recVars, proxies, proxy, accepted, crashed>>

\* io.Copy(conn, backendConn) returns: the read of backendConn ends (the
\* backend closed its end, or backendConn was closed under the read)
CopyFromBackend(c) ==
  /\ ~crashed
  /\ conns[c].pc = "relay"
  /\ ~conns[c].d1
  /\ \/ conns[c].bconn = "closed"
     \/ conns[c].peer = "closed"
  /\ conns' = [conns EXCEPT ![c].d1 = TRUE]
  /\ UNCHANGED <<call, pollVars, rounds, recVars, proxies, proxy, accepted, crashed>>

\* io.Copy(backendConn, conn) returns: the read of conn ends (the client
\* closed its end), or bytes the client sent cannot be written to a
\* backendConn that is closed; while the client is silent the read blocks
CopyFromClient(c) ==
  /\ ~crashed
  /\ conns[c].pc = "relay"
  /\ ~conns[c].d2
  /\ \/ conns[c].client = "closed"
     \/ conns[c].client = "sending" /\ conns[c].bconn = "closed"
     \/ conns[c].client = "sending" /\ conns[c].peer = "closed"
  /\ conns' = [conns EXCEPT ![c].d2 = TRUE]
  /\ UNCHANGED <<call, pollVars, rounds, recVars, proxies, proxy, accepted, crashed>>

\* waitBothDone.Wait() returns once both copies have called Done; the
\* deferred backendConn.Close() runs
WaitBothDone(c) ==
  /\ ~crashed
  /\ conns[c].pc = "relay"
  /\ conns[c].d1
  /\ conns[c].d2
  /\ conns' = [conns EXCEPT ![c].pc = "cleanup", ![c].bconn = "closed"]
  /\ UNCHANGED <<call, pollVars, rounds, recVars, proxies, proxy, accepted, crashed>>

\* the steps of the relay goroutine of connection c and of its two copies
RelayStep(c) ==
  \/ GetBackend(c)
  \/ CreateConnection(c)
  \/ DialOk(c)
  \/ DialFail(c)
  \/ CopyFromBackend(c)
  \/ CopyFromClient(c)
  \/ WaitBothDone(c)
  \/ Cleanup(c)

RelayNext ==
  \/ \E ipPortPairs \in BackendLists : CallUpdateBackendHosts(ipPortPairs)
  \/ CallServe
  \/ CallClose
  \/ CloseConn
  \/ CallCloseReturn
  \/ \E i \in 1..Len(proxy) : ServeListen(i)
  \/ \E i \in 1..Len(proxy) : ServeActivate(i)
  \/ \E i \in 1..Len(proxy) : ServeListenError(i)
  \/ \E i \in 1..Len(proxy) : Accept(i)
  \/ \E i \in 1..Len(proxy) : ServeReturn(i)
  \/ \E c \in 1..MaxConns : RelayStep(c)
  \/ \E c \in 1..MaxConns : ClientSend(c)
  \/ \E c \in 1..MaxConns : ClientClose(c)
  \/ \E c \in 1..MaxConns : BackendPeerClose(c)

RelaySpec == ProxyInit /\ [][RelayNext]_vars

\* ----------------------------------------------- one connection at a time
\* One Proxy that serves while its backend list is replaced at any moment,
\* and MaxSelections clients that connect one after the other, each after the
\* goroutine of the one before has returned.
MaxSelections == 3

\* Serve, p.listener.Accept() returns the next connection: go func(conn)
AcceptInTurn(i) ==
  /\ ~crashed
  /\ proxy[i].serve = "accept"
  /\ proxy[i].listener = "open"
  /\ accepted < MaxSelections
  /\ accepted' = accepted + 1
  /\ \E c \in 1..MaxConns :
       /\ Returned(c)
       /\ \A d \in 1..(c - 1) : ~Returned(d)
       /\ conns' = [conns EXCEPT ![c] =
            [FreeConn EXCEPT !.pc = "getBackend", !.proxy = i, !.inbound = "open"]]
  /\ proxy' = [proxy EXCEPT ![i].serve = LoopCheck(proxy[i])]
  /\ UNCHANGED <<call, pollVars, rounds, recVars, proxies, crashed>>

SelectNext ==
  \/ \E ipPortPairs \in BackendLists : CallUpdateBackendHosts(ipPortPairs)
  \/ CallServe
  \/ \E i \in 1..Len(proxy) : ServeListen(i)
  \/ \E i \in 1..Len(proxy) : ServeActivate(i)
  \/ \E i \in 1..Len(proxy) : ServeListenError(i)
  \/ \E i \in 1..Len(proxy) : AcceptInTurn(i)
  \/ \E c \in 1..MaxConns : GetBackend(c)
  \/ \E c \in 1..MaxConns : CreateConnection(c)
  \/ \E c \in 1..MaxConns : DialOk(c)
  \/ \E c \in 1..MaxConns : DialFail(c)
  \/ \E c \in 1..MaxConns : RelayDone(c)
  \/ \E c \in 1..MaxConns : Cleanup(c)

SelectSpec == ProxyInit /\ [][SelectNext]_vars

\* ------------------------------------------- the functions on their own
\* Each function that takes its whole input as arguments (or from the
\* environment) called once, on any input out of a small set; call records
\* the call and what came back.  The program itself does not run.
progVars == <<pollVars, rounds, recVars, proxies, proxy, conns, accepted, crashed>>

\* the values of a string flag: not given (the default "") or given
FlagValues(given) == {"", given}

\* _main after flag.Parse: usage and return 1 when -name is missing or when
\* neither -family nor -service is given; else ecsclient.New and proxyTasks,
\* which does not return
_main(name, family, service) ==
  IF name = "" THEN [usage |-> TRUE, exit |-> 1, client |-> FALSE]
  ELSE IF family = "" /\ service = ""
       THEN [usage |-> TRUE, exit |-> 1, client |-> FALSE]
       ELSE [usage |-> FALSE, exit |-> -1, client |-> TRUE]

Call_main(name, family, service) ==
  /\ call = NoCall
  /\ call' = [fn |-> "_main", name |-> name, family |-> family, service |-> service,
              result |-> _main(name, family, service)]
  /\ UNCHANGED progVars

\* the tasks a helper may be given, and the task lists of up to MaxTasks tasks
MaxTasks == 2

TaskKinds == {TaskA, TaskB, TaskC, TaskD, TaskUnbound, TaskStopped, TaskOther}

TaskLists == UNION {[1..n -> TaskKinds] : n \in 0..MaxTasks}

\* taskhelpers.ContainerPorts(tasks, containerName)
CallContainerPorts(taskList) ==
  /\ call = NoCall
  /\ call' = [fn |-> "ContainerPorts", tasks |-> taskList,
              result |-> ContainerPorts(taskList)]
  /\ UNCHANGED progVars

\* taskhelpers.FilterIPPort(tasks, containerName, containerPort, publicIP)
CallFilterIPPort(taskList, containerPort, publicIP) ==
  /\ call = NoCall
  /\ call' = [fn |-> "FilterIPPort", tasks |-> taskList,
              containerPort |-> containerPort, publicIP |-> publicIP,
              result |-> FilterIPPort(taskList, containerPort, publicIP)]
  /\ UNCHANGED progVars

\* an *ecs.NetworkBinding as container.ContainerPorts sees it: nil, or its
\* ContainerPort (NilPort: nil) and its Protocol (NilProtocol: nil)
NilBinding == [isNil |-> TRUE]

NilProtocol == "nil"

Protocols == {"tcp", "udp"}

NetworkBinding(port, proto) == [isNil |-> FALSE, cport |-> port, proto |-> proto]

NetworkBindingKinds ==
  {NilBinding} \cup
  {NetworkBinding(port, proto) :
     port \in {NilPort, 10, 20}, proto \in Protocols \cup {NilProtocol}}

\* the NetworkBindings of a container: up to MaxBindings bindings
MaxBindings == 2

NetworkBindingLists == UNION {[1..n -> NetworkBindingKinds] : n \in 0..MaxBindings}

\* a faulty protocol test: a binding without a protocol passes for every
\* requested protocol
WrongProtocol_NilIsAny(binding, protocol) ==
  binding.proto # NilProtocol /\ binding.proto # protocol

\* container.ContainerPorts, the two protocol tests: the binding names another
\* protocol, or names none and the requested one is not tcp
WrongProtocol(binding, protocol) ==
  \/ binding.proto # NilProtocol /\ binding.proto # protocol
  \/ binding.proto = NilProtocol /\ protocol # "tcp"

\* container.ContainerPorts, the loop over c.NetworkBindings
RECURSIVE container_ContainerPortsFrom(_, _, _, _)
container_ContainerPortsFrom(ports, networkBindings, protocol, i) ==
  IF i > Len(networkBindings) THEN ports
  ELSE LET binding == networkBindings[i]
       IN IF binding.isNil \/ binding.cport = NilPort
          THEN container_ContainerPortsFrom(ports, networkBindings, protocol, i + 1)
          ELSE IF WrongProtocol(binding, protocol)
               THEN container_ContainerPortsFrom(ports, networkBindings, protocol, i + 1)
               ELSE container_ContainerPortsFrom(Append(ports, binding.cport),
                                                 networkBindings, protocol, i + 1)

container_ContainerPorts(networkBindings, protocol) ==
  container_ContainerPortsFrom(<< >>, networkBindings, protocol, 1)

\* container.ContainerPorts(protocol) on a container with these bindings
Call_container_ContainerPorts(networkBindings, protocol) ==
  /\ call = NoCall
  /\ call' = [fn |-> "container.ContainerPorts", bindings |-> networkBindings,
              protocol |-> protocol,
              result |-> container_ContainerPorts(networkBindings, protocol)]
  /\ UNCHANGED progVars

\* the environment of the process: os.Getenv gives "" for a variable that is
\* not set
Environments ==
  [AWS_REGION : {"", "us-east-1"}, AWS_DEFAULT_REGION : {"", "us-west-2"}]

\* what ec2MetadataClient.Region() answers: the region, or "" with an error
MetadataAnswers ==
  {[region |-> "ap-south-1", err |-> FALSE], [region |-> "", err |-> TRUE]}

\* a faulty lookup: AWS_DEFAULT_REGION is read before AWS_REGION
EnvRegion_DefaultFirst(region, env) ==
  IF region # "" THEN region
  ELSE IF env.AWS_DEFAULT_REGION # "" THEN env.AWS_DEFAULT_REGION
       ELSE env.AWS_REGION

\* ecsclient.New, the first two tests of region: the argument, else
\* AWS_REGION, else AWS_DEFAULT_REGION
EnvRegion(region, env) ==
  IF region # "" THEN region
  ELSE IF env.AWS_REGION # "" THEN env.AWS_REGION
       ELSE env.AWS_DEFAULT_REGION

\* ecsclient.New: the region is looked up, with the EC2 metadata asked last;
\* without a region New panics, else the client is built for the region
ecsclient_New(region, env, metadata) ==
  LET fromEnv == EnvRegion(region, env)
      found   == IF fromEnv # "" THEN fromEnv ELSE metadata.region
  IN IF found = "" THEN [panic |-> TRUE, client |-> FALSE, region |-> ""]
     ELSE [panic |-> FALSE, client |-> TRUE, region |-> found]

Call_ecsclient_New(region, env, metadata) ==
  /\ call = NoCall
  /\ call' = [fn |-> "ecsclient.New", region |-> region, env |-> env,
              metadata |-> metadata,
              result |-> ecsclient_New(region, env, metadata)]
  /\ UNCHANGED progVars

\* ------ ECSClient.Tasks against an ECS and an EC2 API that answer as follows
\* the maximum number of elements to pass into a describe api
ecsChunkSize == 100

\* a task's ContainerInstanceArn that is nil, a container instance's
\* Ec2InstanceId that is nil; container instances and EC2 instances are
\* numbered from 1
NilArn == 0

NilId == 0

\* an *ecs.Task as Tasks sees it: LastStatus and ContainerInstanceArn
EcsTaskKinds == [status : {"RUNNING", "STOPPED"}, ciArn : {NilArn, 1, 2}]

EcsTaskLists == UNION {[1..n -> EcsTaskKinds] : n \in 0..MaxTasks}

\* the Ec2InstanceId of a container instance: container instance k is EC2
\* instance k, but container instance 2 has none
Ec2InstanceId(ciArn) == IF ciArn = 2 THEN NilId ELSE ciArn

\* what can go wrong: nothing, one of the four API methods returns an error,
\* or DescribeTasks answers with Failures
ApiFailures ==
  {"none", "ListTasksPages", "DescribeTasks", "DescribeTasksFailures",
   "DescribeContainerInstances", "DescribeInstances"}

\* the order in which a range over a map yields its keys is not specified:
\* ascending or descending
MapOrders == {"up", "down"}

\* the APIs of one call of Tasks: the tasks of the cluster in the order they
\* are listed, pageSize of them per page; which request fails, if it is
\* made: the failAt-th of the method fails; the container instances
\* DescribeContainerInstances knows; the instances DescribeInstances knows;
\* the order of the range over the map of allContainerInstanceArns
EcsApis ==
  [tasks : EcsTaskLists, pageSize : 1..MaxTasks, fails : ApiFailures,
   failAt : 1..MaxTasks, known : SUBSET {1, 2}, reserved : SUBSET {1},
   mapOrder : MapOrders]

\* the nth request of the method fails
Fails(api, method, nth) == api.fails = method /\ api.failAt = nth

\* a request as the API sees it: the method and the identifiers passed
Request(method, ids) == [method |-> method, ids |-> ids]

NumPages(api) ==
  IF Len(api.tasks) = 0 THEN 1
  ELSE (Len(api.tasks) + api.pageSize - 1) \div api.pageSize

Page(api, p) ==
  LET last == IF p * api.pageSize < Len(api.tasks) THEN p * api.pageSize
              ELSE Len(api.tasks)
  IN SubSeq(api.tasks, (p - 1) * api.pageSize + 1, last)

\* taskArns.TaskArns of page p: the task at place k of the listing has arn k
PageArns(api, p) ==
  [i \in 1..Len(Page(api, p)) |-> (p - 1) * api.pageSize + i]

\* a faulty callback: the error or the Failures of DescribeTasks end the
\* listing, but descrErr is not set
RECURSIVE allTasksFrom_DropError(_, _, _)
allTasksFrom_DropError(api, p, sofar) ==
  IF p > NumPages(api) THEN sofar
  ELSE IF Fails(api, "ListTasksPages", p) THEN [sofar EXCEPT !.err = TRUE]
  ELSE IF Page(api, p) = << >> THEN sofar
  ELSE LET described ==
             [sofar EXCEPT !.calls =
                Append(@, Request("DescribeTasks", PageArns(api, p)))]
       IN IF \/ Fails(api, "DescribeTasks", p)
             \/ Fails(api, "DescribeTasksFailures", p)
          THEN described
          ELSE allTasksFrom_DropError(api, p + 1,
                 [described EXCEPT !.tasks = @ \o Page(api, p)])

\* allTasks, the callback of ListTasksPages page by page: ListTasksPages
\* fails to list the page and returns its error; an empty page ends the
\* listing; DescribeTasks of the page, whose error or Failures end the
\* listing with descrErr set; else the described tasks are appended
RECURSIVE allTasksFrom(_, _, _)
allTasksFrom(api, p, sofar) ==
  IF p > NumPages(api) THEN sofar
  ELSE IF Fails(api, "ListTasksPages", p) THEN [sofar EXCEPT !.err = TRUE]
  ELSE IF Page(api, p) = << >> THEN sofar
  ELSE LET described ==
             [sofar EXCEPT !.calls =
                Append(@, Request("DescribeTasks", PageArns(api, p)))]
       IN IF \/ Fails(api, "DescribeTasks", p)
             \/ Fails(api, "DescribeTasksFailures", p)
          THEN [described EXCEPT !.err = TRUE]
          ELSE allTasksFrom(api, p + 1, [described EXCEPT !.tasks = @ \o Page(api, p)])

allTasks(api) ==
  allTasksFrom(api, 1, [tasks |-> << >>,
                        calls |-> <<Request("ListTasksPages", << >>)>>,
                        err |-> FALSE])

\* taskArr.selectStatus
selectStatus(taskArr, status) == SelectSeq(taskArr, LAMBDA t : t.status = status)

\* the keys of a map in the order a range yields them
KeysInOrder(keys, mapOrder) ==
  LET top == IF keys = {} THEN 0
             ELSE CHOOSE k \in keys : \A j \in keys : j <= k
      up  == SelectSeq([i \in 1..top |-> i], LAMBDA k : k \in keys)
  IN IF mapOrder = "up" THEN up
     ELSE [i \in 1..Len(up) |-> up[Len(up) + 1 - i]]

\* taskArr.allContainerInstanceArns: the arns, each once, nil left out, in
\* the order of the range over the map
allContainerInstanceArns(taskArr, mapOrder) ==
  KeysInOrder({taskArr[i].ciArn : i \in 1..Len(taskArr)} \ {NilArn}, mapOrder)

\* Tasks, the chunk of the loop over containerInstanceArns that starts at
\* index i (counted from 0)
Chunk(containerInstanceArns, i) ==
  IF i + ecsChunkSize > Len(containerInstanceArns)
  THEN SubSeq(containerInstanceArns, i + 1, Len(containerInstanceArns))
  ELSE SubSeq(containerInstanceArns, i + 1, i + ecsChunkSize)

\* Tasks, the loop over containerInstanceArns from index i on:
\* DescribeContainerInstances of the chunk, whose error ends Tasks; else the
\* container instances the API knows are recorded
RECURSIVE describeChunksFrom(_, _, _, _)
describeChunksFrom(api, containerInstanceArns, i, sofar) ==
  IF i >= Len(containerInstanceArns) THEN sofar
  ELSE LET chunk  == Chunk(containerInstanceArns, i)
           called == [sofar EXCEPT !.calls =
                        Append(@, Request("DescribeContainerInstances", chunk))]
       IN IF Fails(api, "DescribeContainerInstances", (i \div ecsChunkSize) + 1)
          THEN [called EXCEPT !.err = TRUE]
          ELSE describeChunksFrom(api, containerInstanceArns, i + ecsChunkSize,
                 [called EXCEPT !.described =
                    @ \o SelectSeq(chunk, LAMBDA a : a \in api.known)])

\* what a call of Tasks comes to
TasksError(calls) == [kind |-> "error", output |-> << >>, calls |-> calls]

TasksPanic(calls) == [kind |-> "panic", output |-> << >>, calls |-> calls]

TasksOk(output, calls) == [kind |-> "ok", output |-> output, calls |-> calls]

\* the last loop of Tasks for one task (its ContainerInstanceArn is not nil):
\* the EC2 instance of its container instance, nil when the container
\* instance was not described, has no Ec2InstanceId, or the instance was not
\* among the reservations
Associate(ecsTask, containerInstances, ec2Instances) ==
  IF /\ ecsTask.ciArn \in containerInstances
     /\ Ec2InstanceId(ecsTask.ciArn) # NilId
     /\ Ec2InstanceId(ecsTask.ciArn) \in ec2Instances
  THEN Ec2InstanceId(ecsTask.ciArn) ELSE NilId

\* ECSClient.Tasks
Tasks(api) ==
  LET all     == allTasks(api)
      running == selectStatus(all.tasks, "RUNNING")
      containerInstanceArns == allContainerInstanceArns(running, api.mapOrder)
      descr   == describeChunksFrom(api, containerInstanceArns, 0,
                   [calls |-> all.calls, described |-> << >>, err |-> FALSE])
      containerInstances == Range(descr.described)
      ec2InstanceIds ==
        SelectSeq([k \in 1..Len(descr.described) |->
                     Ec2InstanceId(descr.described[k])],
                  LAMBDA id : id # NilId)
      calls4  == Append(descr.calls, Request("DescribeInstances", ec2InstanceIds))
      \* DescribeInstances without instance ids describes every instance
      ec2Instances == IF ec2InstanceIds = << >> THEN api.reserved
                      ELSE api.reserved \cap Range(ec2InstanceIds)
  IN IF all.err THEN TasksError(all.calls)
     ELSE IF Len(running) = 0 THEN TasksOk(<< >>, all.calls)
     ELSE IF containerInstanceArns = << >> THEN TasksError(all.calls)
     ELSE IF descr.err THEN TasksError(descr.calls)
     ELSE IF Fails(api, "DescribeInstances", 1) THEN TasksError(calls4)
     ELSE IF ec2Instances = {} THEN TasksError(calls4)
     ELSE IF \E i \in 1..Len(running) : running[i].ciArn = NilArn
          THEN TasksPanic(calls4)       \* *ecsTask.ContainerInstanceArn
          ELSE TasksOk([i \in 1..Len(running) |->
                         [task |-> running[i],
                          ec2Instance |-> Associate(running[i], containerInstances,
                                                    ec2Instances)]],
                       calls4)

CallTasks(api) ==
  /\ call = NoCall
  /\ call' = [fn |-> "Tasks", api |-> api, result |-> Tasks(api)]
  /\ UNCHANGED progVars

\* ------ Proxy.deleteConnection on its own
MaxActive == 2

\* a Proxy with its activeConnections: a backing array of up to
\* MaxActive + 1 slots, of which the first n are the slice and hold
\* connections (not nil); the slots behind the slice are nil
ConnectionSlices ==
  {[New(80) EXCEPT !.arr = [i \in 1..size |-> IF i <= n THEN entries[i] ELSE 0],
                   !.n = n] :
     <<size, n, entries>> \in
       {<<size, n, entries>> \in
          (0..(MaxActive + 1)) \X (0..(MaxActive + 1))
             \X [1..(MaxActive + 1) -> 1..MaxActive] : n <= size}}

\* p.deleteConnection(targetConn); targetConn 0 is nil
Call_deleteConnection(px, targetConn) ==
  /\ call = NoCall
  /\ call' = [fn |-> "deleteConnection", px |-> px, targetConn |-> targetConn,
              result |-> deleteConnection(px, targetConn)]
  /\ UNCHANGED progVars

\* one call of one function
CallNext ==
  \/ \E name \in FlagValues("web"), family \in FlagValues("fam"),
        service \in FlagValues("svc") : Call_main(name, family, service)
  \/ \E taskList \in TaskLists : CallContainerPorts(taskList)
  \/ \E taskList \in TaskLists, containerPort \in Ports, publicIP \in BOOLEAN : CallFilterIPPort(taskList, containerPort, publicIP)
  \/ \E networkBindings \in NetworkBindingLists, protocol \in Protocols : Call_container_ContainerPorts(networkBindings, protocol)
  \/ \E region \in {"", "eu-west-1"}, env \in Environments, metadata \in MetadataAnswers : Call_ecsclient_New(region, env, metadata)
  \/ \E px \in ConnectionSlices, targetConn \in 0..MaxActive : Call_deleteConnection(px, targetConn)

CallSpec == Init /\ [][CallNext]_vars

\* one call of ECSClient.Tasks against any of the APIs
TasksNext == call = NoCall /\ \E api \in EcsApis : CallTasks(api)

TasksSpec == Init /\ [][TasksNext]_vars

\* ------ ECSClient.Tasks against clusters with many container instances
MaxInstances == 201

\* n RUNNING tasks, the k-th on container instance k
RunningOn(n) == [k \in 1..n |-> [status |-> "RUNNING", ciArn |-> k]]

\* APIs that do not fail and know every container instance and every
\* instance, of clusters of n container instances with one or two RUNNING
\* tasks each; ListTasks returns at most 100 task arns per page, which is
\* ecsChunkSize
ChunkApis ==
  {[tasks |-> IF twice THEN RunningOn(n) \o RunningOn(n) ELSE RunningOn(n),
    pageSize |-> ecsChunkSize, fails |-> "none", failAt |-> 1,
    known |-> 1..n, reserved |-> (1..n) \ {2}, mapOrder |-> mapOrder] :
     n \in 0..MaxInstances, twice \in BOOLEAN, mapOrder \in MapOrders}

\* one call of ECSClient.Tasks against a cluster of many container instances
ChunkNext == call = NoCall /\ \E api \in ChunkApis : CallTasks(api)

ChunkSpec == Init /\ [][ChunkNext]_vars

\* ================================================================ claims
InProxySet(i) == proxies[proxy[i].port] = i

\* Close has run to its end on Proxy i
Closed(i) == proxy[i].listener = "closed"

\* connection slot c holds a goroutine that has chosen its backend
Bound(c) == conns[c].pc \in {"createConnection", "dialing", "relay", "cleanup"}

\* the step in which the goroutine of slot c chooses its backend
SelectionStep(c) == conns[c].pc = "getBackend" /\ conns'[c].pc = "createConnection"

SnapshotPorts == Range(ContainerPorts(tasks))

\* ---------------------------------------------------------------------
\* C1 as stated: at the end of the round of ANY delivered task list, the
\* empty one included, the ProxySet holds only container ports of that list.
C1_Original ==
  rpc = "roundEnd" => \A port \in Ports : proxies[port] # 0 => port \in SnapshotPorts

\* C1: at the end of the round of a delivered task list that holds at least
\* one task (its tasks may expose no container port at all), the ProxySet
\* holds only container ports of that list, and every Proxy that is not in
\* the ProxySet has been closed: listener closed, liveness flag false.
C1_StalePortsClosed ==
  /\ (rpc = "roundEnd" /\ Len(tasks) > 0) =>
        \A port \in Ports : proxies[port] # 0 => port \in SnapshotPorts
  /\ \A i \in 1..Len(proxy) : ~InProxySet(i) => Closed(i) /\ ~proxy[i].active

\* a round over a task list without container ports has closed and removed
\* a Proxy
C1_Witness ==
  /\ rpc = "roundEnd"
  /\ Len(tasks) > 0
  /\ SnapshotPorts = {}
  /\ \E i \in 1..Len(proxy) : ~InProxySet(i) /\ Closed(i)

\* ---------------------------------------------------------------------
\* C2 as stated: once the round that removed a port is over, no backend
\* connection of the closed Proxy is open, whether it was registered before
\* Close ran or its dial was in flight while Close ran.
C2_Original ==
  \A c \in 1..MaxConns :
    (/\ rpc \in {"roundEnd", "recv"}
     /\ conns[c].proxy # 0
     /\ Closed(conns[c].proxy)) => conns[c].bconn # "open"

\* ---------------------------------------------------------------------
\* C3: the step of the reconciler that updates the backends of an existing
\* Proxy changes nothing but that Proxy's backend list: the ProxySet, every
\* connection (its sockets, its backend, its position) and, of every Proxy,
\* the listener, the liveness flag, the tracked connections and the Serve
\* goroutine stay as they were; the other Proxies do not change at all.
UpdateStepOn(i) ==
  /\ rpc = "proxyNew"
  /\ idx' = idx + 1
  /\ proxies[ContainerPorts(tasks)[idx]] = i
  /\ FilterIPPort(tasks, ContainerPorts(tasks)[idx], public) # << >>

SameButBackends(px, py) ==
  [px EXCEPT !.currentBackends = << >>, !.installed = << >>]
    = [py EXCEPT !.currentBackends = << >>, !.installed = << >>]

C3_UpdateOnlyBackends ==
  [][\A i \in 1..Len(proxy) :
       UpdateStepOn(i) =>
         /\ conns' = conns
         /\ proxies' = proxies
         /\ Len(proxy') = Len(proxy)
         /\ SameButBackends(proxy[i], proxy'[i])
         /\ \A j \in 1..Len(proxy) : j # i => proxy'[j] = proxy[j]]_vars

\* a relayed connection is open on a serving Proxy whose backend list no
\* longer holds the connection's backend: the list was replaced under it
C3_Witness ==
  \E c \in 1..MaxConns :
    /\ conns[c].pc = "relay"
    /\ conns[c].bconn = "open"
    /\ conns[c].inbound = "open"
    /\ InProxySet(conns[c].proxy)
    /\ proxy[conns[c].proxy].active
    /\ conns[c].backend \notin Range(proxy[conns[c].proxy].currentBackends)

\* ---------------------------------------------------------------------
\* C4: a backend selection picks a member of the Proxy's backend list of that
\* moment (the list of the last UpdateBackendHosts that returned), and from
\* then on the connection keeps that backend until its goroutine returns.
C4_StickyBackend ==
  [][\A c \in 1..MaxConns :
       /\ SelectionStep(c) =>
            conns'[c].backend \in Range(proxy[conns[c].proxy].currentBackends)
       /\ (Bound(c) /\ conns'[c].pc # "free") =>
            /\ conns'[c].backend = conns[c].backend
            /\ conns'[c].proxy = conns[c].proxy]_vars

\* the round that replaced the list of a Proxy is over, and a connection
\* that chose its backend out of the earlier list still has that backend,
\* which the new list does not hold
C4_Witness ==
  \E c \in 1..MaxConns :
    /\ Bound(c)
    /\ rpc = "recv"
    /\ pollPc = "poll"
    /\ InProxySet(conns[c].proxy)
    /\ conns[c].backend = IPPort("10.0.0.2", 8080)
    /\ proxy[conns[c].proxy].currentBackends = <<IPPort("10.0.0.1", 8080)>>

\* ---------------------------------------------------------------------
\* C5: a Proxy's backend list is at every moment exactly the list one
\* UpdateBackendHosts call was given (or the empty list of a new Proxy), and
\* every selection picks a member of that one list.
C5_WholeList ==
  /\ [](\A i \in 1..Len(proxy) : proxy[i].currentBackends = proxy[i].installed)
  /\ [][\A c \in 1..MaxConns :
          SelectionStep(c) =>
            conns'[c].backend \in Range(proxy[conns[c].proxy].installed)]_vars

\* a connection has chosen its backend out of the list that the round that
\* is ending installed
C5_Witness ==
  \E c \in 1..MaxConns :
    /\ conns[c].pc = "createConnection"
    /\ rpc = "roundEnd"
    /\ Len(proxy) = 1
    /\ accepted = 1
    /\ proxy[conns[c].proxy].installed = FilterIPPort(tasks, 80, public)
    /\ conns[c].backend \in Range(proxy[conns[c].proxy].installed)


\* ---------------------------------------------------------------------
\* the step of connection c's goroutine out of backend selection
LeavesSelection(c) ==
  conns[c].pc = "getBackend" /\ conns'[c] # conns[c]

\* C6: when the backend list of the Proxy is empty at a connection's backend
\* selection, that step closes the inbound connection and ends the
\* goroutine: no backend is chosen, no dial is started, connsLock is not
\* taken and nothing is added to the active connections; a connection ended
\* this way has its inbound side closed and has no backend connection.
C6_EmptyListClosesInbound ==
  /\ [](\A c \in 1..MaxConns :
          conns[c].pc = "rejected" =>
            /\ conns[c].inbound = "closed"
            /\ conns[c].backend = NoBackend
            /\ conns[c].bconn = "nil"
            /\ \A i \in 1..Len(proxy) :
                 /\ proxy[i].connsLock # c
                 /\ c \notin Range(ActiveConnections(proxy[i])))
  /\ [][\A c \in 1..MaxConns :
          (LeavesSelection(c) /\ proxy[conns[c].proxy].currentBackends = << >>)
            => /\ conns'[c].pc = "rejected"
               /\ conns'[c].inbound = "closed"
               /\ proxy' = proxy]_vars

\* a serving Proxy whose list is empty has turned a connection away
C6_Witness ==
  \E c \in 1..MaxConns :
    /\ conns[c].pc = "rejected"
    /\ proxy[conns[c].proxy].serve = "accept"
    /\ proxy[conns[c].proxy].active
    /\ proxy[conns[c].proxy].currentBackends = << >>

\* ---------------------------------------------------------------------
\* C7 as stated: a connection accepted after the reconciliation of a
\* snapshot that lists its port with no backend is closed without a backend:
\* it is never given one.
C7_Original ==
  \A c \in 1..MaxConns :
    conns[c].afterEmpty =>
      /\ conns[c].pc \in {"getBackend", "rejected"}
      /\ conns[c].backend = NoBackend

\* C7: a snapshot that lists a port with no backend leaves the backend list
\* of the port's Proxy as it was, and that list is never empty; so a
\* connection accepted on the port after that snapshot was reconciled is not
\* closed for want of a backend: its selection picks an address of the list
\* the Proxy had before.
C7_StaleBackendsServe ==
  /\ \A i \in 1..Len(proxy) : proxy[i].currentBackends # << >>
  /\ \A c \in 1..MaxConns :
       conns[c].afterEmpty =>
         /\ conns[c].pc # "rejected"
         /\ conns[c].pc # "getBackend" => conns[c].backend # NoBackend

\* a connection accepted after such a snapshot is being relayed to a backend
C7_Witness ==
  \E c \in 1..MaxConns :
    /\ conns[c].afterEmpty
    /\ conns[c].pc = "relay"
    /\ conns[c].bconn = "open"
    /\ conns[c].backend # NoBackend

\* ---------------------------------------------------------------------
\* C8: while the reconciler works on a snapshot that lists a port with no
\* backend, no Proxy is constructed for that port, the ProxySet entry of the
\* port stays as it is, and a Proxy the port has is not closed.
C8_EmptyListNoEffect ==
  [][\A port \in EmptyPorts(tasks) :
       /\ proxies'[port] = proxies[port]
       /\ \A i \in 1..Len(proxy') : i > Len(proxy) => proxy'[i].port # port
       /\ proxies[port] # 0 =>
            /\ proxy[proxies[port]].active => proxy'[proxies[port]].active
            /\ ~Closed(proxies[port]) => proxy'[proxies[port]].listener # "closed"
     ]_vars

\* at the end of the round of a snapshot that lists port 80 with no backend,
\* the Proxy port 80 had before is still in the ProxySet and serving
C8_Witness ==
  /\ rpc = "roundEnd"
  /\ 80 \in EmptyPorts(tasks)
  /\ proxies[80] # 0
  /\ proxy[proxies[80]].active
  /\ proxy[proxies[80]].listener = "open"

\* ---------------------------------------------------------------------
\* C9: at the end of a round, every port the snapshot lists with a non-empty
\* backend list has a Proxy in the ProxySet whose backend list is exactly
\* the snapshot's list for the port; and proxyNewPorts never replaces a
\* Proxy that is in the ProxySet by another one.
C9_ListsInstalled ==
  /\ [](rpc = "roundEnd" =>
         \A port \in SnapshotPorts :
           FilterIPPort(tasks, port, public) # << >> =>
             /\ proxies[port] # 0
             /\ proxy[proxies[port]].currentBackends
                  = FilterIPPort(tasks, port, public))
  /\ [][\A port \in Ports :
          (rpc = "proxyNew" /\ proxies[port] # 0) =>
             proxies'[port] = proxies[port]]_vars

\* the round of a second snapshot ends: the Proxy of port 80, constructed
\* for a list of two addresses, holds the one address of the new list, and
\* a connection made before is still bound to the address that was dropped
C9_Witness ==
  /\ rpc = "roundEnd"
  /\ tasks = <<TaskA>>
  /\ proxies[80] # 0
  /\ proxy[proxies[80]].currentBackends = <<IPPort("10.0.0.1", 8080)>>
  /\ \E c \in 1..MaxConns :
       /\ Bound(c)
       /\ conns[c].proxy = proxies[80]
       /\ conns[c].backend = IPPort("10.0.0.2", 8080)

\* ---------------------------------------------------------------------
\* C10 as stated: when the bind of a new port's listener fails, no Proxy for
\* that port is kept: at the end of a round the ProxySet holds no Proxy
\* whose Serve returned the bind error.
C10_Original ==
  rpc = "roundEnd" =>
    \A port \in Ports :
      proxies[port] # 0 => proxy[proxies[port]].serve # "failed"


\* ---------------------------------------------------------------------
\* C11 as stated: no goroutine ever panics: Close never calls a method of a
\* listener that is not there, and never closes a nil connection.
C11_Original == ~crashed


\* ---------------------------------------------------------------------
\* C12 as stated: once Close has returned and has closed the backend
\* connection of a relay, the relay goroutine can run on to its exit without
\* any help of the client: while the client stays connected and silent, a
\* step of the relay or of one of its copies is possible.
C12_Original ==
  \A c \in 1..MaxConns :
    (/\ conns[c].pc = "relay"
     /\ Closed(conns[c].proxy)
     /\ closing = 0
     /\ conns[c].bconn = "closed"
     /\ conns[c].client = "silent")
      => ENABLED RelayStep(c)


\* ---------------------------------------------------------------------
\* the steps of the reconciler between taking a task list and the end of
\* its round
ReconcilerStep ==
  \/ \E port \in Ports : CloseBegin(port)
  \/ CloseConn
  \/ CloseListener
  \/ ProxyNewPort
  \/ RoundEnd

\* the reconciler is inside a round
InRound == rpc \in {"unproxy", "closing", "proxyNew", "roundEnd"}

\* C13 as stated: whatever the Serve and relay goroutines are doing, the
\* reconciler can always take its next step until the round is over: every
\* Close and UpdateBackendHosts call it makes returns.
C13_Original == InRound => ENABLED ReconcilerStep


\* ---------------------------------------------------------------------
\* the Proxies constructed for a port that Close has not closed
LiveProxies(port) ==
  {i \in 1..Len(proxy) : proxy[i].port = port /\ ~Closed(i)}

\* the Proxies of a port whose listener is open
OpenListeners(port) ==
  {i \in 1..Len(proxy) : proxy[i].port = port /\ SocketOpen(proxy[i])}

\* C14: for every port, at most one Proxy that has not been closed exists,
\* it is the one the ProxySet holds for the port, and at most one listener
\* is open on the port.
C14_OneProxyPerPort ==
  \A port \in Ports :
    /\ Cardinality(LiveProxies(port)) <= 1
    /\ Cardinality(OpenListeners(port)) <= 1
    /\ \A i \in LiveProxies(port) : proxies[port] = i

\* port 80 had a Proxy, left the task list, and came back: its first Proxy
\* is closed and a second one is listening on the port
C14_Witness ==
  /\ Len(proxy) >= 2
  /\ proxy[1].port = 80
  /\ Closed(1)
  /\ proxy[2].port = 80
  /\ proxy[2].listener = "open"
  /\ proxies[80] = 2


\* ---------------------------------------------------------------------
\* C15 as stated: in every state, the listening socket of a Proxy is open
\* exactly when its flag active is true.
C15_Original ==
  \A i \in 1..Len(proxy) : SocketOpen(proxy[i]) <=> proxy[i].active

\* C15: the flag is true only while the socket is open; the socket is open
\* with the flag false only inside Serve, between the return of net.Listen
\* and p.active = true, and inside Close, between p.active = false and
\* p.listener.Close().
C15_OpenIffActiveOutsideWindows ==
  \A i \in 1..Len(proxy) :
    /\ proxy[i].active => SocketOpen(proxy[i])
    /\ (SocketOpen(proxy[i]) /\ ~proxy[i].active) =>
          (proxy[i].serve = "bound" \/ closing = i)

\* Close is closing the connections of a Proxy: the flag is false already
\* and the listener is still open
C15_Witness ==
  \E i \in 1..Len(proxy) :
    /\ closing = i
    /\ closeI <= closeLen
    /\ ~proxy[i].active
    /\ proxy[i].listener = "open"


\* ---------------------------------------------------------------------
\* Close has been called on Proxy i: it is running or has returned
CloseCalled(i) == closing = i \/ Closed(i)

\* connection slot c is given to a newly accepted connection
AcceptStep(c) == Returned(c) /\ conns'[c].pc = "getBackend"

\* the goroutine of connection c passes the active check and starts to dial
DialStep(c) == conns[c].pc = "createConnection" /\ conns'[c].pc = "dialing"

\* C16 as stated: once Close has been called on a Proxy, its flag stays
\* false, its listener is not reopened, and the Proxy accepts no connection
\* and starts no dial any more.
C16_Original ==
  [][\A c \in 1..MaxConns :
       /\ AcceptStep(c) => ~CloseCalled(conns'[c].proxy)
       /\ DialStep(c) => ~CloseCalled(conns[c].proxy)]_vars

\* C16: once Close has been called on a Proxy, its flag is false and stays
\* false, a listener that Close has closed stays closed, no goroutine passes
\* the active check to start a dial, and once the listener is closed no
\* connection is accepted; a connection can still be accepted while Close is
\* running, before it has closed the listener.
C16_ClosedIsTerminal ==
  /\ [](\A i \in 1..Len(proxy) : CloseCalled(i) => ~proxy[i].active)
  /\ [][\A i \in 1..Len(proxy) :
          /\ CloseCalled(i) => CloseCalled(i)'
          /\ Closed(i) => Closed(i)']_vars
  /\ [][\A c \in 1..MaxConns :
          /\ AcceptStep(c) => ~Closed(conns'[c].proxy)
          /\ DialStep(c) => ~CloseCalled(conns[c].proxy)]_vars

\* Close has returned and Serve has returned after it, and a connection that
\* came to createConnection after the flag was cleared was turned away
\* without a dial
C16_Witness ==
  \E c \in 1..MaxConns :
    /\ conns[c].pc = "cleanup"
    /\ conns[c].bconn = "nil"
    /\ Closed(conns[c].proxy)
    /\ proxy[conns[c].proxy].serve = "returned"
    /\ ~proxy[conns[c].proxy].active


\* ---------------------------------------------------------------------
\* a call of client.Tasks fails
FailedPollStep == rounds' = rounds + 1 /\ pollHist' = "failed"

\* C17: a failed call of client.Tasks sends nothing to the reconciler and
\* changes neither the ProxySet nor any Proxy nor the reconciler's position;
\* the poller is back at its next poll, and a task list a later call returns
\* is sent as any other.
C17_FailedPollChangesNothing ==
  /\ [][FailedPollStep =>
          /\ pollPc' = "poll"
          /\ pollTasks' = << >>
          /\ proxies' = proxies
          /\ proxy' = proxy
          /\ recVars' = recVars
          /\ crashed' = crashed]_vars
  /\ [](pollHist = "failed" => pollPc = "poll" /\ pollTasks = << >>)
  /\ [][(pollHist = "failed" /\ pollPc' = "send") => pollHist' = "recovered"]_vars

\* after a call of client.Tasks had failed, a later call returned a task
\* list with port 80, the reconciler took it, and the round has ended with a
\* Proxy for port 80 that holds the list
C17_Witness ==
  /\ pollHist = "recovered"
  /\ pollPc = "poll"
  /\ rpc = "roundEnd"
  /\ tasks = <<TaskA>>
  /\ proxies[80] # 0
  /\ proxy[proxies[80]].currentBackends = <<IPPort("10.0.0.1", 8080)>>


\* ---------------------------------------------------------------------
\* an Accept call of Proxy i fails on the open listener
AcceptErrorStep(i) == proxy'[i].acceptErrs = proxy[i].acceptErrs + 1

\* the Serve goroutine of Proxy i returns from its loop
ServeReturnStep(i) == proxy[i].serve = "accept" /\ proxy'[i].serve = "returned"

\* C18: an Accept error on an active Proxy leaves Serve in its loop; Serve
\* leaves the loop only when the flag is false, that is after Close was
\* called, and returns nil then (it returns an error only for a failed
\* bind); and once Close has closed the listener, the return of Serve is the
\* one step left to it.
C18_ServeLoop ==
  /\ [][\A i \in 1..Len(proxy) :
          /\ (AcceptErrorStep(i) /\ proxy[i].active) => proxy'[i].serve = "accept"
          /\ ServeReturnStep(i) => (~proxy[i].active /\ CloseCalled(i))
          /\ proxy'[i].serve = "failed" => proxy[i].serve \in {"start", "failed"}]_vars
  /\ [](\A i \in 1..Len(proxy) :
          (Closed(i) /\ ~crashed /\ proxy[i].serve = "accept") =>
             /\ ENABLED ServeReturn(i)
             /\ ~ENABLED Accept(i))

\* an Accept call failed on an active Proxy, and Serve is in its loop, the
\* listener open, with a connection accepted
C18_Witness ==
  \E i \in 1..Len(proxy) :
    /\ proxy[i].acceptErrs >= 1
    /\ proxy[i].active
    /\ proxy[i].serve = "accept"
    /\ proxy[i].listener = "open"
    /\ \E c \in 1..MaxConns : conns[c].proxy = i /\ conns[c].pc = "relay"


\* ---------------------------------------------------------------------
\* the dial of connection c fails or times out
DialFailStep(c) == conns[c].pc = "dialing" /\ conns'[c].bconn = "failed"

\* C19: when the dial of a connection fails, createConnection releases
\* connsLock and adds nothing to the active connections; the goroutine
\* keeps the backend it had chosen, selects no other and dials no more; its
\* next and last step takes the connection off nothing, closes the inbound
\* connection and returns, leaving no lock held.
C19_DialFailure ==
  /\ [][\A c \in 1..MaxConns :
          DialFailStep(c) =>
            /\ conns'[c].pc = "cleanup"
            /\ conns'[c].backend = conns[c].backend
            /\ conns'[c].inbound = "open"
            /\ proxy'[conns[c].proxy].connsLock = 0
            /\ ActiveConnections(proxy'[conns[c].proxy])
                 = ActiveConnections(proxy[conns[c].proxy])]_vars
  /\ [](\A c \in 1..MaxConns :
          conns[c].bconn = "failed" =>
            /\ conns[c].pc = "cleanup"
            /\ \A i \in 1..Len(proxy) :
                 /\ proxy[i].connsLock # c
                 /\ c \notin Range(ActiveConnections(proxy[i])))
  /\ [][\A c \in 1..MaxConns :
          (conns[c].bconn = "failed" /\ conns'[c] # conns[c]) =>
            /\ conns'[c] = FreeConn
            /\ \A i \in 1..Len(proxy) :
                 /\ proxy'[i].connsLock = proxy[i].connsLock
                 /\ ActiveConnections(proxy'[i]) = ActiveConnections(proxy[i])]_vars

\* the dial of a connection has failed: the goroutine is about to return
C19_Witness ==
  \E c \in 1..MaxConns :
    /\ conns[c].pc = "cleanup"
    /\ conns[c].bconn = "failed"
    /\ conns[c].backend # NoBackend
    /\ proxy[conns[c].proxy].active
    /\ proxy[conns[c].proxy].connsLock = 0


\* ---------------------------------------------------------------------
\* C20 as stated: while the dial of a connection is running, its goroutine
\* holds no lock of the Proxy: connsLock is not held across net.DialTimeout.
C20_Original ==
  \A c \in 1..MaxConns :
    conns[c].pc = "dialing" => proxy[conns[c].proxy].connsLock # c

\* ---------------------------------------------------------------------
\* the step in which the goroutine of slot c gets address b from getBackend
Selects(c, b) == GetBackend(c) /\ conns'[c].backend = b

\* C21: whenever a relay goroutine is about to choose its backend, every
\* address of the Proxy's current list can be the one it gets, whatever was
\* chosen before and whichever dials have failed before; and the address it
\* gets is always a member of the current list.
C21_AnyMemberAnyTime ==
  /\ [](\A c \in 1..MaxConns :
          (~crashed /\ conns[c].pc = "getBackend" /\ ~LHeldByClose(conns[c].proxy)) =>
             \A b \in Range(proxy[conns[c].proxy].currentBackends) :
               ENABLED Selects(c, b))
  /\ [][\A c \in 1..MaxConns :
          SelectionStep(c) =>
            conns'[c].backend \in Range(proxy[conns[c].proxy].currentBackends)]_vars

\* out of a list of two addresses, a later connection has got the address a
\* dial to which failed for an earlier connection
C21_Witness ==
  \E c \in 1..MaxConns :
    /\ conns[c].pc = "createConnection"
    /\ accepted > 1
    /\ Len(proxy[conns[c].proxy].currentBackends) = 2
    /\ conns[c].backend \in Range(proxy[conns[c].proxy].currentBackends)
    /\ conns[c].backend \in proxy[conns[c].proxy].dialFailed

\* ---------------------------------------------------------------------
\* C22 as stated: the process goes on to create a client and to proxy exactly
\* when -name is given and exactly one of -family and -service is given; in
\* every other case it prints usage and exits with a non-zero status, with no
\* client created.
C22_Original ==
  call.fn = "_main" =>
    LET valid == /\ call.name # ""
                 /\ (call.family # "") # (call.service # "")
    IN /\ valid => call.result.client /\ ~call.result.usage
       /\ ~valid => /\ call.result.usage
                    /\ call.result.exit > 0
                    /\ ~call.result.client

\* ---------------------------------------------------------------------
\* task t of a list contributes to the helpers: it has the named container
\* and the container is RUNNING
Contributes(taskList, t) == taskList[t].hasContainer /\ taskList[t].running

\* the places <<task, binding>> of a task list where container port p is bound
\* in a contributing task
PlacesOf(taskList, p) ==
  UNION {{<<t, k>> : k \in {n \in 1..Len(taskList[t].bindings) :
                               taskList[t].bindings[n].cport = p}} :
         t \in {m \in 1..Len(taskList) : Contributes(taskList, m)}}

\* place a comes before place b in task order and then binding order
Before(a, b) == a[1] < b[1] \/ (a[1] = b[1] /\ a[2] < b[2])

\* the first place of port p (p is bound somewhere)
FirstPlace(taskList, p) ==
  CHOOSE a \in PlacesOf(taskList, p) :
    \A b \in PlacesOf(taskList, p) : a = b \/ Before(a, b)

\* the container ports bound in the contributing tasks of a list
BoundPorts(taskList) == {p \in Ports : PlacesOf(taskList, p) # {}}

\* C23: the port list ContainerPorts returns holds every container port bound
\* in the list's running named containers exactly once, however many bindings
\* and tasks bind it, and the ports stand in the order of their first binding.
C23_EachPortOnce ==
  call.fn = "ContainerPorts" =>
    LET r == call.result
    IN /\ Range(r) = BoundPorts(call.tasks)
       /\ \A i, j \in DOMAIN r : r[i] = r[j] => i = j
       /\ \A i, j \in DOMAIN r :
            i < j => Before(FirstPlace(call.tasks, r[i]), FirstPlace(call.tasks, r[j]))

\* a list in which port 81 is bound twice by one container and once more by
\* another task, and port 80 in between, gave 81 and then 80
C23_Witness ==
  /\ call.fn = "ContainerPorts"
  /\ call.tasks = <<TaskD, TaskC>>
  /\ call.result = <<81, 80>>

\* ---------------------------------------------------------------------
\* every place of a task list where a contributing task binds a container port
AllPlaces(taskList) == UNION {PlacesOf(taskList, p) : p \in Ports}

\* C24: the ports ContainerPorts returns are exactly the container ports bound
\* by the named container of the tasks in which it is RUNNING (a task without
\* the container, or with the container not RUNNING, adds none), and they can
\* be read off the bindings going through the tasks in order and through each
\* task's bindings in order.
C24_RunningContainersInOrder ==
  call.fn = "ContainerPorts" =>
    LET r == call.result
    IN /\ \A p \in Ports :
            p \in Range(r) <=>
              \E t \in 1..Len(call.tasks) :
                /\ call.tasks[t].hasContainer
                /\ call.tasks[t].running
                /\ \E k \in 1..Len(call.tasks[t].bindings) :
                     call.tasks[t].bindings[k].cport = p
       /\ Range(r) \subseteq Ports
       /\ \E place \in [DOMAIN r -> AllPlaces(call.tasks)] :
            /\ \A i \in DOMAIN r : place[i] \in PlacesOf(call.tasks, r[i])
            /\ \A i, j \in DOMAIN r : i < j => Before(place[i], place[j])

\* a stopped container that binds port 80 stands before a running container
\* that binds 81: only 81 is returned
C24_Witness ==
  /\ call.fn = "ContainerPorts"
  /\ call.tasks = <<TaskStopped, TaskC>>
  /\ call.result = <<81>>

\* ---------------------------------------------------------------------
\* the address of the requested kind of a task's host ("": none)
HostIP(task, publicIP) == IF publicIP THEN task.publicIP ELSE task.privateIP

\* the bindings of a task's container that bind containerPort to a host port
HostBindings(task, containerPort) ==
  {k \in 1..Len(task.bindings) :
     task.bindings[k].cport = containerPort /\ task.bindings[k].hport # 0}

\* the task has the named container RUNNING, with containerPort bound to a
\* host port, on a host with an address of the requested kind
Qualifies(task, containerPort, publicIP) ==
  /\ task.hasContainer
  /\ task.running
  /\ HostBindings(task, containerPort) # {}
  /\ HostIP(task, publicIP) # ""

\* the "ip:hostPort" of a qualifying task: the host port is that of the first
\* binding that binds containerPort to a host port
AddressOf(task, containerPort, publicIP) ==
  LET first == CHOOSE k \in HostBindings(task, containerPort) :
                 \A n \in HostBindings(task, containerPort) : k <= n
  IN IPPort(HostIP(task, publicIP), task.bindings[first].hport)

\* C25: FilterIPPort returns one address for each qualifying task and nothing
\* for any other task, the addresses standing in the order of their tasks.
C25_OneAddressPerQualifyingTask ==
  call.fn = "FilterIPPort" =>
    LET r == call.result
        qualifying == {t \in 1..Len(call.tasks) :
                         Qualifies(call.tasks[t], call.containerPort, call.publicIP)}
    IN /\ Len(r) = Cardinality(qualifying)
       /\ \E taskOf \in [DOMAIN r -> qualifying] :
            /\ \A i, j \in DOMAIN r : i < j => taskOf[i] < taskOf[j]
            /\ \A i \in DOMAIN r :
                 r[i] = AddressOf(call.tasks[taskOf[i]], call.containerPort,
                                  call.publicIP)

\* asked for public addresses of port 80: the task whose host has no public
\* address gives nothing, the next one gives its public address with the
\* host port of its first binding of port 80 that has one
C25_Witness ==
  /\ call.fn = "FilterIPPort"
  /\ call.tasks = <<TaskB, TaskD>>
  /\ call.containerPort = 80
  /\ call.publicIP
  /\ call.result = <<IPPort("54.0.0.4", 8080)>>

\* ---------------------------------------------------------------------
\* the protocol a binding counts for: its own, tcp when it names none
ProtocolOf(binding) == IF binding.proto = NilProtocol THEN "tcp" ELSE binding.proto

\* C26: container.ContainerPorts(protocol) returns one port for each binding
\* that has a container port and counts for the requested protocol, each the
\* container port of its binding, in the order of the bindings; nothing for
\* any other binding, and nothing at all for an empty binding list.
C26_PortsOfProtocol ==
  call.fn = "container.ContainerPorts" =>
    LET r == call.result
        matching == {k \in 1..Len(call.bindings) :
                       /\ ~call.bindings[k].isNil
                       /\ call.bindings[k].cport # NilPort
                       /\ ProtocolOf(call.bindings[k]) = call.protocol}
    IN /\ Len(r) = Cardinality(matching)
       /\ \E bindingOf \in [DOMAIN r -> matching] :
            /\ \A i, j \in DOMAIN r : i < j => bindingOf[i] < bindingOf[j]
            /\ \A i \in DOMAIN r : r[i] = call.bindings[bindingOf[i]].cport
       /\ call.bindings = << >> => r = << >>

\* asked for tcp: a binding without a protocol gave its port, a udp binding of
\* another port gave nothing
C26_Witness ==
  /\ call.fn = "container.ContainerPorts"
  /\ call.protocol = "tcp"
  /\ call.bindings = <<NetworkBinding(20, "udp"), NetworkBinding(10, NilProtocol)>>
  /\ call.result = <<10>>

\* ---------------------------------------------------------------------
\* C27: ecsclient.New builds the client for the first non-empty value among
\* the region argument, AWS_REGION, AWS_DEFAULT_REGION and the region of the
\* host metadata, in this order; when all four are empty it panics and
\* returns no client.
C27_RegionPrecedence ==
  call.fn = "ecsclient.New" =>
    LET candidates == <<call.region, call.env.AWS_REGION,
                        call.env.AWS_DEFAULT_REGION, call.metadata.region>>
        given == {k \in 1..4 : candidates[k] # ""}
    IN IF given = {}
       THEN call.result.panic /\ ~call.result.client
       ELSE /\ ~call.result.panic
            /\ call.result.client
            /\ \E k \in given :
                 /\ \A n \in given : k <= n
                 /\ call.result.region = candidates[k]

\* no region argument, both variables set: the client is built for the
\* region of AWS_REGION
C27_Witness ==
  /\ call.fn = "ecsclient.New"
  /\ call.region = ""
  /\ call.env.AWS_REGION = "us-east-1"
  /\ call.env.AWS_DEFAULT_REGION = "us-west-2"
  /\ call.result.client
  /\ call.result.region = "us-east-1"

\* ---------------------------------------------------------------------
\* the place of an API method in the order list tasks, describe tasks,
\* describe container instances, describe EC2 instances
ApiRank(method) ==
  CASE method = "ListTasksPages" -> 1
    [] method = "DescribeTasks" -> 2
    [] method = "DescribeContainerInstances" -> 3
    [] method = "DescribeInstances" -> 4

\* the EC2 instance a task can be associated with: that of its container
\* instance, when the task names one, the container instance was described
\* with an instance id, and DescribeInstances knows the instance; else none
InstanceOf(api, ecsTask) ==
  IF /\ ecsTask.ciArn # NilArn
     /\ ecsTask.ciArn \in api.known
     /\ Ec2InstanceId(ecsTask.ciArn) \in api.reserved
  THEN Ec2InstanceId(ecsTask.ciArn) ELSE NilId

\* the call returned the listed RUNNING tasks, in the order they were
\* described, each with the instance it can be associated with
ReturnsRunningTasks(api, result) ==
  LET running == {i \in 1..Len(api.tasks) : api.tasks[i].status = "RUNNING"}
  IN /\ result.kind = "ok"
     /\ Len(result.output) = Cardinality(running)
     /\ \E taskOf \in [DOMAIN result.output -> running] :
          /\ \A i, j \in DOMAIN result.output : i < j => taskOf[i] < taskOf[j]
          /\ \A i \in DOMAIN result.output :
               /\ result.output[i].task = api.tasks[taskOf[i]]
               /\ result.output[i].ec2Instance = InstanceOf(api, api.tasks[taskOf[i]])

\* the API methods were called in the order of their ranks
CallsInOrder(result) ==
  \A i, j \in DOMAIN result.calls :
    i < j => ApiRank(result.calls[i].method) <= ApiRank(result.calls[j].method)

\* C28 as stated: whenever no API method fails, Tasks returns the listed
\* RUNNING tasks in the order they were described, each paired with the EC2
\* instance of its container instance or with none when it cannot be
\* associated, and it calls the API methods in the order list tasks, describe
\* tasks, describe container instances, describe EC2 instances.
C28_Original ==
  (call.fn = "Tasks" /\ call.api.fails = "none") =>
     /\ ReturnsRunningTasks(call.api, call.result)
     /\ CallsInOrder(call.result)

\* ---------------------------------------------------------------------
\* the poller gets a task list from client.Tasks and starts sending it
ProduceStep == pollPc = "poll" /\ pollPc' = "send"

\* the task list the poller is sending goes over to the reconciler
HandoverStep == pollPc = "send" /\ pollPc' = "poll"

\* C29: the poller holds at most one task list, and gets the next one only
\* after the reconciler has taken that one; the reconciler takes a list only
\* when no round is running, and the list it takes is the one the poller
\* holds; the list of a round is not replaced while the round runs; and the
\* ProxySet changes only in steps of the reconciler inside a round.
C29_OneSnapshotAtATime ==
  [][/\ pollTasks' # pollTasks => ProduceStep \/ HandoverStep
     /\ ProduceStep => pollTasks = << >>
     /\ HandoverStep => /\ rpc = "recv"
                        /\ rpc' # "recv"
                        /\ tasks' = pollTasks
                        /\ pollTasks' = << >>
     /\ (InRound /\ tasks' # tasks) => rpc = "roundEnd" /\ rpc' = "recv"
     /\ (rpc = "recv" /\ rpc' # "recv") => HandoverStep
     /\ proxies' # proxies =>
          /\ InRound
          /\ InRound'
          /\ UNCHANGED <<pollVars, rounds, tasks, conns, accepted>>]_vars

\* the poller has got its second task list and holds it, the round of the
\* first one still running with a Proxy already in the ProxySet
C29_Witness ==
  /\ pollPc = "send"
  /\ rounds = 2
  /\ InRound
  /\ tasks # << >>
  /\ \E port \in Ports : proxies[port] # 0

\* ---------------------------------------------------------------------
\* a relay goroutine is inside createConnection or deleteConnection of
\* Proxy i: it holds connsLock, to add its connection to the set or to take
\* it out
Registering(i) == proxy[i].connsLock # 0

\* C30 as stated: Close reads the active-connection set with the
\* connection-set lock held, so from its range statement to its return no
\* relay goroutine of that Proxy is inside createConnection or
\* deleteConnection.
C30_Original ==
  \A i \in 1..Len(proxy) : closing = i => ~Registering(i)

\* ------------------------------------------------------------------ C31
\* the backend connections in p.activeConnections of Proxy i
Registered(i) == Range(ActiveConnections(proxy[i]))

\* the relay goroutines of Proxy i whose dial succeeded and which have not
\* yet run their deferred deleteConnection
Relaying(i) ==
  {c \in 1..MaxConns : /\ conns[c].proxy = i
                       /\ conns[c].pc \in {"relay", "cleanup"}
                       /\ conns[c].bconn \in {"open", "closed"}}

\* waitBothDone.Wait() returns for connection c in this step
RelayEnds(c) == conns[c].pc = "relay" /\ conns'[c].pc # "relay"

\* the deferred deleteConnection and conn.Close() of a connection whose dial
\* succeeded run in this step
Deregisters(c) ==
  /\ conns[c].pc = "cleanup"
  /\ conns[c].bconn \in {"open", "closed"}
  /\ conns'[c].pc # "cleanup"

\* C31: the active connections of a Proxy are exactly the backend
\* connections whose dial succeeded and whose relay goroutine has not yet
\* returned, each registered once; the relay ends only when both copies
\* have returned, and then backendConn is closed; the goroutine then takes
\* backendConn out of the active connections and closes the client's
\* connection.
C31_ActiveAreRelaying ==
  /\ [](\A i \in 1..Len(proxy) :
          /\ Registered(i) = Relaying(i)
          /\ proxy[i].n = Cardinality(Relaying(i)))
  /\ [][\A c \in 1..MaxConns :
          /\ RelayEnds(c) =>
               /\ conns[c].d1
               /\ conns[c].d2
               /\ conns'[c].bconn = "closed"
          /\ Deregisters(c) =>
               /\ conns[c].bconn = "closed"
               /\ c \notin Range(ActiveConnections(proxy'[conns[c].proxy]))
               /\ conns'[c].inbound = "closed"]_vars

\* a Proxy whose only relay has ended and has been deregistered: the array
\* that held it is still there, the slice is empty again
C31_Witness ==
  /\ ~crashed
  /\ \E i \in 1..Len(proxy) :
       /\ Len(proxy[i].arr) >= 1
       /\ proxy[i].n = 0
       /\ Relaying(i) = {}

\* ------------------------------------------------------------------ C32
\* one end of the relayed connection c has closed its side
OneSideClosed(c) ==
  /\ conns[c].pc = "relay"
  /\ \/ conns[c].client = "closed"
     \/ conns[c].peer = "closed"

\* C32 as stated: once the client or the backend has closed its side of a
\* relayed connection, the relay can run on to its end without any help of
\* the other end: until the relay goroutine has returned, a step of the
\* goroutine or of one of its copies is possible.
C32_Original ==
  \A c \in 1..MaxConns : OneSideClosed(c) => ENABLED RelayStep(c)

\* ------------------------------------------------------------------ C33
\* proxyNewPorts creates a Proxy in this step
CreatesProxy == Len(proxy') = Len(proxy) + 1

\* the relay goroutine of connection c calls getBackend in this step
SelectsBackend(c) == conns[c].pc = "getBackend" /\ conns'[c].pc # "getBackend"

\* C33: a Proxy that proxyNewPorts creates has the non-empty address list of
\* the task list for its port before its Serve goroutine exists: it is
\* created with that list, not yet listening; so every Proxy has a
\* non-empty list from then on, and every getBackend call finds an address.
C33_BackendsBeforeServe ==
  /\ [](\A i \in 1..Len(proxy) : proxy[i].currentBackends # << >>)
  /\ [][CreatesProxy =>
          LET newProxy == proxy'[Len(proxy')]
          IN /\ newProxy.currentBackends =
                  FilterIPPort(tasks, newProxy.port, public)
             /\ newProxy.serve = "start"
             /\ newProxy.listener = "nil"
             /\ ~newProxy.active]_vars
  /\ [][\A c \in 1..MaxConns :
          SelectsBackend(c) =>
            /\ conns'[c].pc = "createConnection"
            /\ conns'[c].backend \in
                 Range(proxy[conns[c].proxy].currentBackends)]_vars

\* the first connection of a Proxy has been accepted and its relay
\* goroutine has chosen a backend
C33_Witness ==
  \E c \in 1..MaxConns :
    /\ conns[c].pc = "createConnection"
    /\ conns[c].backend \in Range(proxy[conns[c].proxy].currentBackends)

\* ------------------------------------------------------------------ C34
\* the Proxies a step acts on: the one it creates, those of which it changes
\* a field (listener, active, list of backends, active connections), and
\* those of which it changes a connection
TouchedProxies ==
  ({i \in 1..Len(proxy') : i > Len(proxy)}
     \cup {i \in 1..Len(proxy) : proxy'[i] # proxy[i]}
     \cup {conns[c].proxy : c \in {d \in 1..MaxConns : conns'[d] # conns[d]}}
     \cup {conns'[c].proxy : c \in {d \in 1..MaxConns : conns'[d] # conns[d]}})
    \ {0}

\* a step acts on the Proxy of one port at most
OtherProxiesUntouched == Cardinality(TouchedProxies) <= 1

\* the Serve of some Proxy has returned the error of net.Listen
SomeBindFailed == \E i \in 1..Len(proxy) : proxy[i].serve = "failed"

\* the round has ports left to reconcile: proxyNewPorts has not run yet
\* and the task list has container ports, or it is inside its loop
PortsRemain ==
  \/ rpc \in {"unproxy", "closing"} /\ ContainerPorts(tasks) # << >>
  \/ rpc = "proxyNew"

\* C34 as stated: a step that creates, updates or closes the Proxy of one
\* port, or in which its bind fails, leaves every other Proxy as it is; and
\* in a round, also after the bind of some port has failed, the reconciler
\* can take its next step as long as ports remain to be reconciled.
C34_Original ==
  /\ [][OtherProxiesUntouched]_vars
  /\ [](PortsRemain /\ SomeBindFailed => ENABLED ReconcilerStep)

\* every step of the program acts on one Proxy at most
EveryStepActsOnOneProxy == [][OtherProxiesUntouched]_vars

\* ------------------------------------------------------------------ C35
\* the range loop of Close is about to read an element
CloseReads == closing # 0 /\ closeI <= closeLen

\* C35 as stated: every element the range loop of Close reads is a
\* connection of the active connections, which it closes: Close closes each
\* of them and does not crash.
C35_Original == CloseReads => RangeElem(closeI) # 0

\* Close is called on a Proxy that an earlier Close has closed, and returns
SecondClose ==
  /\ closing # 0
  /\ closing' = 0
  /\ proxy[closing].listener = "closed"

\* a second Close that runs to its end leaves the Proxy closed: the flag is
\* false, the listener closed
SecondCloseKeepsClosed ==
  [][SecondClose => /\ ~crashed'
                    /\ proxy'[closing].listener = "closed"
                    /\ ~proxy'[closing].active]_vars

\* ------------------------------------------------------------------ C36
\* the requests of a method among the requests of a call of Tasks
RequestsOf(result, method) ==
  {k \in DOMAIN result.calls : result.calls[k].method = method}

\* a request that Tasks made has failed: ListTasksPages could not list a
\* page it came to, or the failing request of another method was made;
\* the Failures of DescribeTasks come with a DescribeTasks request
RequestFailed(api, result) ==
  \/ api.fails = "ListTasksPages" /\ api.failAt <= NumPages(api)
  \/ /\ api.fails \in {"DescribeTasks", "DescribeContainerInstances",
                       "DescribeInstances"}
     /\ Cardinality(RequestsOf(result, api.fails)) >= api.failAt
  \/ /\ api.fails = "DescribeTasksFailures"
     /\ Cardinality(RequestsOf(result, "DescribeTasks")) >= api.failAt

\* DescribeInstances was asked and knows no instance
NoReservations(api, result) ==
  RequestsOf(result, "DescribeInstances") # {} /\ api.reserved = {}

\* the RUNNING tasks of the cluster
RunningTasks(api) ==
  {k \in 1..Len(api.tasks) : api.tasks[k].status = "RUNNING"}

\* C36: a call of Tasks that returns tasks without an error returns one
\* entry for each RUNNING task of the cluster, and none of its requests has
\* failed; when a request has failed, or DescribeInstances returns no
\* reservation, Tasks returns an error and no task; when the listing
\* succeeds and no task is RUNNING, Tasks returns the empty list without an
\* error and makes no describe request for container instances or
\* instances.
C36_NoPartialList ==
  call.fn = "Tasks" =>
    LET api    == call.api
        result == call.result
    IN /\ result.kind = "ok" =>
            /\ Len(result.output) = Cardinality(RunningTasks(api))
            /\ ~RequestFailed(api, result)
            /\ ~NoReservations(api, result)
       /\ RequestFailed(api, result) \/ NoReservations(api, result) =>
            /\ result.kind = "error"
            /\ result.output = << >>
       /\ result.kind # "ok" => result.output = << >>
       /\ ~RequestFailed(api, result) /\ RunningTasks(api) = {} =>
            /\ result.kind = "ok"
            /\ result.output = << >>
            /\ RequestsOf(result, "DescribeContainerInstances") = {}
            /\ RequestsOf(result, "DescribeInstances") = {}

\* DescribeTasks fails for the second page after the RUNNING task of the
\* first page has been described: an error and no task
C36_Witness ==
  /\ call.fn = "Tasks"
  /\ call.api.fails = "DescribeTasks"
  /\ call.api.failAt = 2
  /\ Cardinality(RequestsOf(call.result, "DescribeTasks")) = 2
  /\ call.api.tasks[1].status = "RUNNING"
  /\ call.result.kind = "error"
  /\ call.result.output = << >>

\* ------------------------------------------------------------------ C37
\* the describe methods
DescribeMethods ==
  {"DescribeTasks", "DescribeContainerInstances", "DescribeInstances"}

\* the identifiers passed to the requests of a method from request k on, in
\* the order they were passed
RECURSIVE IdsPassedFrom(_, _, _)
IdsPassedFrom(result, method, k) ==
  IF k > Len(result.calls) THEN << >>
  ELSE (IF result.calls[k].method = method THEN result.calls[k].ids ELSE << >>)
         \o IdsPassedFrom(result, method, k + 1)

\* the container instances the RUNNING tasks of the cluster name
RunningContainerInstances(api) ==
  {api.tasks[k].ciArn : k \in RunningTasks(api)} \ {NilArn}

\* every request of the method was passed at most ecsChunkSize identifiers
WithinChunkSize(result, method) ==
  \A k \in RequestsOf(result, method) : Len(result.calls[k].ids) <= ecsChunkSize

\* the DescribeContainerInstances requests together were passed each
\* container instance of the RUNNING tasks once
CoversEachArnOnce(api, result) ==
  LET ids == IdsPassedFrom(result, "DescribeContainerInstances", 1)
  IN /\ Range(ids) = RunningContainerInstances(api)
     /\ Len(ids) = Cardinality(RunningContainerInstances(api))

\* C37 as stated: every describe request of a call of Tasks that returns
\* tasks is passed at most ecsChunkSize identifiers, and its
\* DescribeContainerInstances requests together are passed each container
\* instance of the RUNNING tasks exactly once.
C37_Original ==
  (call.fn = "Tasks" /\ call.result.kind = "ok"
     /\ RunningTasks(call.api) # {}) =>
    /\ \A method \in DescribeMethods : WithinChunkSize(call.result, method)
    /\ CoversEachArnOnce(call.api, call.result)

\* the part of C37 that the loop over containerInstanceArns gives: its
\* requests are within ecsChunkSize and cover each container instance once,
\* and so are the DescribeTasks requests, one per page of the listing
ChunkedRequests ==
  (call.fn = "Tasks" /\ call.result.kind = "ok"
     /\ RunningTasks(call.api) # {}) =>
    /\ WithinChunkSize(call.result, "DescribeContainerInstances")
    /\ WithinChunkSize(call.result, "DescribeTasks")
    /\ CoversEachArnOnce(call.api, call.result)

\* ------------------------------------------------------------------ C38
\* how often conn is an entry of the slice
Occurrences(slice, conn) == Cardinality({i \in 1..Len(slice) : slice[i] = conn})

\* C38: deleteConnection(targetConn) on a slice that holds targetConn
\* leaves a slice one shorter, with one entry equal to targetConn less and
\* every other connection as often as before, wherever targetConn stood;
\* when targetConn is not in the slice, or is nil, the Proxy is unchanged.
C38_RemovesOneEntry ==
  call.fn = "deleteConnection" =>
    LET before == ActiveConnections(call.px)
        after  == ActiveConnections(call.result)
    IN IF call.targetConn \in Range(before)
       THEN /\ Len(after) = Len(before) - 1
            /\ \A conn \in 1..MaxActive :
                 Occurrences(after, conn) =
                   IF conn = call.targetConn
                   THEN Occurrences(before, conn) - 1
                   ELSE Occurrences(before, conn)
            /\ call.result.currentBackends = call.px.currentBackends
       ELSE call.result = call.px

\* targetConn is removed from the last place of a slice of three entries
C38_Witness ==
  /\ call.fn = "deleteConnection"
  /\ call.px.n = 3
  /\ call.px.arr[3] = call.targetConn
  /\ call.px.arr[1] # call.targetConn
  /\ call.px.arr[2] # call.targetConn
  /\ call.result.n = 2
  /\ call.targetConn \notin Range(ActiveConnections(call.result))

====
